---------------------------- MODULE Spec2Model ----------------------------
(***************************************************************************)
(* One call session of the Twilio <Stream> <-> OpenAI Realtime bridge       *)
(* (src/server.js, the wss.on("connection") handler at lines 580-883):      *)
(* the output pacer, the debounced commit, the hangup sequence and the      *)
(* socket handlers.  Every handler of the session is one action; timers    *)
(* registered with the event loop are state (armed / pending counts), and   *)
(* their callbacks are actions.                                             *)
(*                                                                          *)
(* Audio bytes are represented by their serial number in enqueue order      *)
(* (1, 2, 3, ...), so that loss, duplication and reordering are visible;    *)
(* 0 stands for a padding byte.                                             *)
(***************************************************************************)
EXTENDS Integers, Sequences, FiniteSets, TLC

VARIABLES
  \* ---- session state (src/server.js:581-637, 745)
  streamSid,          \* let streamSid = ""
  callSid,            \* let callSid = ""
  closed,             \* let closed = false
  outQueue,           \* let outQueue = Buffer.alloc(0)
  pacingTimer,        \* let pacingTimer = null   (TRUE: holds an interval handle)
  commitTimer,        \* let commitTimer = null   ("null" | "live" | "stale")
  awaitingResponse,   \* let awaitingResponse = false
  hangupRequested,    \* let hangupRequested = false
  hangupReason,       \* let hangupReason = "farewell"
  hangupTimeout,      \* let hangupTimeout = null ("null" | "pending" | "fired" | "cleared")
  pendingToolCalls,   \* const pendingToolCalls = new Map()
  \* ---- the server process
  crashed,            \* an exception left a handler uncaught: the process is gone
  other,              \* a second session of the same process: its sockets, flag, heartbeat
  \* ---- the two sockets
  oaState,            \* oa.readyState
  twilioState,        \* twilio.readyState
  \* ---- timers registered with the event loop
  pacingActive,       \* number of armed pacing intervals
  commitPending,      \* pending debounce timeouts: remaining ms, in creation order
  keepAlive,          \* the keep-alive interval is armed
  drainChecks,        \* number of armed drain-poll intervals ("check")
  graceTimeouts,      \* number of pending 120 ms grace timeouts
  hangupFetches,      \* number of Call Control requests awaiting their HTTP answer
  \* ---- the inputs consumed so far
  enqueuedBytes,      \* number of bytes passed to enqueueToTwilio
  oaMsgs,             \* AI Peer messages acted on (see OaBranchTaken)
  mediaMsgs,          \* Telephony media messages handled
  \* ---- what the session has done.  The handlers never read these variables;
  \* ---- a run records one group of them, named by observe.
  observe,            \* the group of observation variables this run records
  \* group "pacer"
  sentFrames,         \* media frames handed to an open Telephony Peer, in order
  \* group "sent"
  oaSent,             \* per kind, the number of messages sent to the AI Peer
  \* group "turn"
  respInFlight,       \* greeting/debounce response.create sent since the last
                      \* response.completed, response.error or error event
  oaErrorsLogged,     \* AI-side error events logged (server.js:828-830)
  \* group "debounce"
  sinceMedia,         \* ms since the caller chunk that armed the pending
                      \* debounce timeout (-1: none pending)
  commitsSinceMedia,  \* commits sent since the last forwarded caller chunk
  createsSinceMedia,  \* response.create messages the debounce timeout sent since that chunk
  lastGap,            \* ms between the last two forwarded chunks when the later
                      \* one re-armed a pending timeout (-1 otherwise)
  \* group "tool"
  namedDones,         \* function_call_arguments.done events handled that name hangup_call
  \* group "msg"
  malformedSeen,      \* a malformed message (either peer) has been handled
  sawAssistantFarewell, \* an assistant transcript with a farewell has been handled
  \* groups "request" and "terminate"
  triggers,           \* hangup triggers handled (calls of requestHangup)
  \* group "request"
  lastTriggerReason,  \* the reason the latest call of requestHangup was given
  goodbyeSent,        \* goodbye response.create messages sent to the AI Peer
  oaOpenAtRequest,    \* the AI Peer was open when the hangup was requested
  lateMedia,          \* the last forwarded caller audio came after the hangup request
  lateCreates,        \* debounce response.create messages sent for such audio
  drainStartLen,      \* bytes queued when drainAndHangup first ran, -1 before
  sentSinceDrain,     \* frames sent to the Telephony Peer since then
  enqSinceDrain,      \* audio has been enqueued since then
  tickToggle,         \* flips at every run of the pacing callback
  framesSent,         \* media frames handed to an open Telephony Peer
  enqAfterClosed,     \* audio has been enqueued after the session was closed
  beatToggle,         \* flips at every run of the keep-alive callback
  lastPing,           \* the connections its last run found open and pinged
  \* ---- the mu-law encoder (a pure function of the module, outside the session)
  pcmSample,          \* the 16-bit signed sample handed to the encoder
  ulawByte,           \* the byte it returned (-1: not encoded yet)
  \* groups "delta", "partial" and "late"
  oaHandled,          \* flips at every AI Peer message the handler is given
  lastOaMsg,          \* the latest of these messages
  lateRequest,        \* the hangup was requested by a message handled after the close
  \* group "terminate"
  reqWhileAwaiting,   \* awaitingResponse was true when the hangup was requested
  finishedSinceRequest, \* a response.completed/response.error arrived after the
                      \* hangup request
  pollersStarted,     \* calls of drainAndHangup
  callControlRequests,\* Call Control terminate requests issued
  hangupCloses        \* times the hangup sequence has closed the two peers

sessionVars  == <<streamSid, callSid, closed, outQueue, pacingTimer, commitTimer,
                  awaitingResponse, hangupRequested, hangupReason, hangupTimeout,
                  pendingToolCalls>>
socketVars   == <<oaState, twilioState>>
timerVars    == <<pacingActive, commitPending, keepAlive, drainChecks, graceTimeouts,
                  hangupFetches>>
inputVars    == <<enqueuedBytes, oaMsgs, mediaMsgs>>
turnObs      == <<respInFlight, oaErrorsLogged>>
debounceObs  == <<sinceMedia, commitsSinceMedia, createsSinceMedia, lastGap>>
requestObs   == <<triggers, lastTriggerReason, goodbyeSent, oaOpenAtRequest>>
lateObs      == <<lateMedia, lateCreates>>
drainObs     == <<drainStartLen, sentSinceDrain, enqSinceDrain>>
cadenceObs   == <<tickToggle, framesSent, enqAfterClosed>>
beatObs      == <<beatToggle, lastPing>>
codecVars    == <<pcmSample, ulawByte>>
handledObs   == <<oaHandled, lastOaMsg, lateRequest>>
terminateObs == <<reqWhileAwaiting, finishedSinceRequest, pollersStarted,
                  callControlRequests, hangupCloses>>
msgObs       == <<namedDones, malformedSeen, sawAssistantFarewell>>
obsVars      == <<observe, sentFrames, oaSent, turnObs, debounceObs, requestObs,
                  lateObs, drainObs, cadenceObs, beatObs, codecVars, handledObs,
                  msgObs, terminateObs>>
vars == <<sessionVars, crashed, other, socketVars, timerVars, inputVars, obsVars>>

\* the value an observation variable takes: new when the run records its group
Obs(g, new, old) == IF observe = g THEN new ELSE old
\* the same for a variable that several groups record
ObsIn(gs, new, old) == IF observe \in gs THEN new ELSE old

-----------------------------------------------------------------------------
(* Program constants *)

FrameSize      == 160     \* outQueue.subarray(0, 160)
DebounceMs     == 250     \* scheduleCommitAndRespond(250)

\* TWILIO_ACCOUNT_SID and TWILIO_AUTH_TOKEN are configured (the deployment
\* that can terminate the carrier-side call leg)
TwilioCredsSet == TRUE

(* Bounds of the model *)

MaxOaMsgs      == 2       \* AI Peer messages acted on in one run
MaxMedia       == 2       \* Telephony media messages handled in one run
MaxBytes       == 350     \* bytes enqueued in one run
MaxArgsLen     == 17      \* characters buffered for one tool call
MaxDrainBytes  == 480     \* bytes enqueued in one run that records the drain

\* decoded lengths of the audio payloads the AI Peer sends: a partial frame, a
\* whole frame and more than a frame in the runs that record the pacer group,
\* less and more than a frame in those that record the cadence group, three
\* frames in those that record the drain group, more than a frame in the others
DeltaLens      == IF observe = "pacer" THEN {130, 160, 190}
                  ELSE IF observe \in {"cadence", "delta"} THEN {100, 190}
                  ELSE IF observe = "drain" THEN {3 * FrameSize}
                  ELSE {190}
\* time advances in steps of 50 ms (the spacing of two caller chunks) in the
\* runs that record the debounce group, and a debounce window at a time in the
\* others
TimeSteps      == IF observe = "debounce" THEN {50} ELSE {DebounceMs}

\* the byte bound of the run
ByteBudget     == IF observe = "drain" THEN MaxDrainBytes ELSE MaxBytes

Min(a, b) == IF a < b THEN a ELSE b
Max(a, b) == IF a > b THEN a ELSE b
CeilDiv(n, d) == (n + d - 1) \div d
Range(s) == {s[i] : i \in 1..Len(s)}

\* the bytes with serial numbers a+1 .. a+n
Bytes(a, n) == [i \in 1..n |-> a + i]
Zeros(n) == [i \in 1..n |-> 0]

RECURSIVE Flatten(_)
Flatten(frames) ==
  IF frames = <<>> THEN <<>> ELSE Head(frames).payload \o Flatten(Tail(frames))


-----------------------------------------------------------------------------
(* Messages.  A field the sender left out is "" (or -1 for a length).      *)

\* AI Peer message: valid = JSON.parse succeeds; deltaLen = decoded length of
\* msg.delta when it is a string (-1 otherwise); deltaAudioLen = decoded length
\* of msg.delta.audio when it is a string (-1 otherwise); args = msg.delta of a
\* function-call-arguments delta.
OaMsg(type) ==
  [valid |-> TRUE, type |-> type, deltaLen |-> -1, deltaAudioLen |-> -1,
   item_id |-> "", tool_call_id |-> "", name |-> "", tool_name |-> "",
   tool_dot_name |-> "", args |-> "", transcript |-> "", text |-> "",
   error |-> FALSE]

OaNotJson == [OaMsg("") EXCEPT !.valid = FALSE]

TranscriptType == "conversation.item.input_audio_transcription.completed"

\* the runs that record the delta group get the three spellings of the audio
\* delta, and a delta of another type that carries text the same way
AudioDeltaMsgs ==
  {[OaMsg("response.audio.delta") EXCEPT !.deltaLen = n] : n \in DeltaLens}
  \cup
  IF observe = "delta"
    THEN {[OaMsg("response.output_audio.delta") EXCEPT !.deltaLen = n] : n \in DeltaLens}
         \cup {[OaMsg("response.delta") EXCEPT !.deltaAudioLen = n] : n \in DeltaLens}
         \cup {[OaMsg("response.audio_transcript.delta") EXCEPT !.deltaLen = 100]}
    ELSE {}

\* the argument texts of a tool call: a reason, a text cut short (JSON.parse
\* throws) and an object without a reason in the runs that record the tool
\* group, none in the runs that record the pacer, drain, cadence, beat, delta,
\* partial, late or debounce group or have a second session (the hangup is then requested by
\* a transcript or the legacy signal), a reason in the others
GoodArgs  == "{\"reason\":\"done\"}"
ArgsTexts == IF observe = "tool" THEN {GoodArgs, "{\"reason\":", "{\"why\":\"x\"}"}
             ELSE IF observe \in {"drain", "iso", "cadence", "beat", "delta", "partial",
                                   "late", "debounce", "pacer"}
               THEN {}
             ELSE {GoodArgs}

\* a delta without the tool name and a done that carries it are sent in the
\* runs that record the tool group
ToolMsgs ==
  { [OaMsg("response.function_call_arguments.delta") EXCEPT
       !.item_id = "item1", !.name = "hangup_call", !.args = a] : a \in ArgsTexts }
  \cup
  { [OaMsg("response.function_call_arguments.done") EXCEPT !.item_id = "item1"],
    [OaMsg("response.tool_call.created") EXCEPT !.tool_dot_name = "hangup_call"] }
  \cup
  IF observe = "tool"
    THEN { [OaMsg("response.function_call_arguments.delta") EXCEPT
              !.item_id = "item1", !.args = GoodArgs],
           [OaMsg("response.function_call_arguments.done") EXCEPT
              !.item_id = "item1", !.name = "hangup_call"] }
    ELSE {}

AssistantTranscriptType == "response.audio_transcript.done"

TranscriptMsgs ==
  { [OaMsg(TranscriptType) EXCEPT !.transcript = "Hvala, dovidjenja"],
    [OaMsg(TranscriptType) EXCEPT !.transcript = "Dobar dan"],
    [OaMsg(AssistantTranscriptType) EXCEPT !.transcript = "Hvala, dovidjenja"] }

FinishMsgs ==
  { OaMsg("response.completed"),
    [OaMsg("response.error") EXCEPT !.error = TRUE],
    [OaMsg("error") EXCEPT !.error = TRUE] }

\* the runs that record the delta group get the audio deltas, one hangup
\* signal and the end of a response
\* those that record the partial group get the transcripts, partial and
\* completed, one audio delta and the end of a response, and those that record
\* the late group get one message of each kind the handler acts on
PartialTranscriptType == "conversation.item.input_audio_transcription.delta"

PartialTranscriptMsgs ==
  { [OaMsg(PartialTranscriptType) EXCEPT !.transcript = "Bok"],
    [OaMsg(PartialTranscriptType) EXCEPT !.deltaLen = 3],
    [OaMsg(TranscriptType) EXCEPT !.transcript = "Bok"],
    [OaMsg(TranscriptType) EXCEPT !.transcript = "Dobar dan"] }

OaMsgs ==
  CASE observe = "delta" ->
         AudioDeltaMsgs
         \cup {[OaMsg("response.tool_call.created") EXCEPT
                  !.tool_dot_name = "hangup_call"],
               OaMsg("response.completed")}
    [] observe = "partial" ->
         AudioDeltaMsgs \cup PartialTranscriptMsgs \cup {OaMsg("response.completed")}
    [] observe = "late" ->
         AudioDeltaMsgs
         \cup {[OaMsg(TranscriptType) EXCEPT !.transcript = "Bok"],
               [OaMsg("response.function_call_arguments.done") EXCEPT
                  !.item_id = "item1", !.name = "hangup_call"],
               OaMsg("response.completed")}
    [] OTHER ->
         AudioDeltaMsgs \cup ToolMsgs \cup TranscriptMsgs \cup FinishMsgs
         \cup {OaMsg("session.updated"), OaMsg("bogus.event"), OaMsg(""),
               OaNotJson}

\* Telephony Peer message
TwMsg(event) ==
  [valid |-> TRUE, event |-> event, startStreamSid |-> "", startCallSid |-> "",
   topStreamSid |-> "", topCallSid |-> "", payload |-> ""]

TwNotJson == [TwMsg("") EXCEPT !.valid = FALSE]

\* a start event that carries no identifiers is sent in the runs that record
\* the life group
TwilioMsgs ==
  (IF observe = "life" THEN {TwMsg("start")} ELSE {}) \cup
  { TwMsg("connected"),
    [TwMsg("start") EXCEPT !.startStreamSid = "MZ1", !.startCallSid = "CA1"],
    [TwMsg("start") EXCEPT !.startStreamSid = "MZ1"],
    [TwMsg("media") EXCEPT !.payload = "b64"],
    TwMsg("media"),
    TwMsg("stop"),
    TwMsg("mark"),
    TwMsg("bogus"),
    TwMsg(""),
    TwNotJson }

\* a || b on strings
Or(a, b) == IF a # "" THEN a ELSE b

\* FAREWELL_RE.test(utt), on the utterances the model sends
FarewellUtterances == {"Hvala, dovidjenja", "Bok", "to je sve", "Vidimo se"}
FAREWELL_RE_test(utt) == utt \in FarewellUtterances

\* msg.type.includes(sub), on the message types the model sends
TypeIncludes(type, sub) ==
  CASE sub = "input_audio_transcription" ->
         type \in {TranscriptType,
                   "conversation.item.input_audio_transcription.delta",
                   "conversation.item.input_audio_transcription.failed"}
    [] sub = "error" ->
         type \in {"error", "response.error"}
    [] OTHER -> FALSE

\* (JSON.parse(argsChunk) or {} when it is empty or does not parse).reason
ArgsReason(argsChunk) ==
  CASE argsChunk = GoodArgs -> "done"
    [] OTHER -> ""

ToolIds == {"default", "item1"}
NoEntry == [present |-> FALSE, name |-> "", argsChunk |-> ""]

\* "response.create" counts the greeting and the debounce-driven requests
\* (the goodbye request of requestHangup is counted by goodbyeSent)
OaKinds == {"session.update", "response.create",
            "input_audio_buffer.append", "input_audio_buffer.commit",
            "response.tool_output"}

\* oa.send(JSON.stringify({type: kind, ...})); "first" keeps the kind of the
\* first message sent on the connection
OaSend(sent, kind) ==
  [sent EXCEPT ![kind] = @ + 1, !["first"] = IF @ = "" THEN kind ELSE @]

-----------------------------------------------------------------------------
\* a second connection just accepted: the same closure, with its own variables
OtherSession ==
  [oaState |-> "CONNECTING", twilioState |-> "OPEN", closed |-> FALSE,
   keepAlive |-> TRUE]

InitSession ==
  /\ streamSid = ""
  /\ callSid = ""
  /\ closed = FALSE
  /\ outQueue = <<>>
  /\ pacingTimer = FALSE
  /\ commitTimer = "null"
  /\ awaitingResponse = FALSE
  /\ hangupRequested = FALSE
  /\ hangupReason = "farewell"
  /\ hangupTimeout = "null"
  /\ pendingToolCalls = [id \in ToolIds |-> NoEntry]
  /\ crashed = FALSE
  /\ other = OtherSession
  /\ oaState = "CONNECTING"
  /\ twilioState = "OPEN"
  /\ pacingActive = 0
  /\ commitPending = <<>>
  /\ keepAlive = TRUE
  /\ drainChecks = 0
  /\ graceTimeouts = 0
  /\ hangupFetches = 0
  /\ enqueuedBytes = 0
  /\ oaMsgs = 0
  /\ mediaMsgs = 0
  /\ sentFrames = <<>>
  /\ oaSent = [k \in OaKinds |-> 0] @@ ("first" :> "")
  /\ respInFlight = 0
  /\ sinceMedia = -1
  /\ commitsSinceMedia = 0
  /\ createsSinceMedia = 0
  /\ lastGap = -1
  /\ oaErrorsLogged = 0
  /\ goodbyeSent = 0
  /\ namedDones = 0
  /\ malformedSeen = FALSE
  /\ sawAssistantFarewell = FALSE
  /\ triggers = 0
  /\ lastTriggerReason = ""
  /\ oaOpenAtRequest = FALSE
  /\ lateMedia = FALSE
  /\ lateCreates = 0
  /\ drainStartLen = -1
  /\ sentSinceDrain = 0
  /\ enqSinceDrain = FALSE
  /\ tickToggle = FALSE
  /\ framesSent = 0
  /\ enqAfterClosed = FALSE
  /\ beatToggle = FALSE
  /\ lastPing = "none"
  /\ ulawByte = -1
  /\ oaHandled = FALSE
  /\ lastOaMsg = OaMsg("")
  /\ lateRequest = FALSE
  /\ reqWhileAwaiting = FALSE
  /\ finishedSinceRequest = FALSE
  /\ pollersStarted = 0
  /\ callControlRequests = 0
  /\ hangupCloses = 0

ObserveGroups == {"pacer", "sent", "turn", "debounce", "request", "terminate",
                  "tool", "msg", "drain", "life", "iso",
                  "cadence", "beat", "codec",
                  "delta", "partial", "late"}

Init == InitSession /\ observe \in ObserveGroups /\ pcmSample = 0

-----------------------------------------------------------------------------
(* Sockets *)

\* oa.close(): starts the closing handshake of an open socket, on which
\* messages still arrive until it completes; aborts the opening handshake of a
\* connecting one, whose readyState is CLOSING too but which receives nothing
\* ("ABORTING")
OaCloseCall(st) ==
  CASE st = "OPEN" -> "CLOSING"
    [] st = "CONNECTING" -> "ABORTING"
    [] OTHER -> st

\* twilio.close()
TwilioCloseCall(st) == IF st = "OPEN" THEN "CLOSING" ELSE st

-----------------------------------------------------------------------------
(* Output pacer *)

\* const frame = outQueue.subarray(0, 160)
PacerFrame(q) == SubSeq(q, 1, Min(FrameSize, Len(q)))

\* outQueue = outQueue.subarray(Math.min(160, outQueue.length))
PacerRest(q) == SubSeq(q, Min(FrameSize, Len(q)) + 1, Len(q))

\* enqueueToTwilio that starts an interval at every call
enqueueToTwilio_AlwaysArms(len) ==
  /\ outQueue' = outQueue \o Bytes(enqueuedBytes, len)
  /\ enqueuedBytes' = enqueuedBytes + len
  /\ pacingTimer' = TRUE
  /\ pacingActive' = pacingActive + 1

\* enqueueToTwilio(ulawBytes), ulawBytes of length len
enqueueToTwilio(len) ==
  /\ outQueue' = outQueue \o Bytes(enqueuedBytes, len)
  /\ enqueuedBytes' = enqueuedBytes + len
  /\ IF ~pacingTimer
       THEN pacingTimer' = TRUE /\ pacingActive' = pacingActive + 1
       ELSE UNCHANGED <<pacingTimer, pacingActive>>

\* the pacing callback that pops and sends after the session was closed
PacerStops_Never == FALSE

\* if (closed) { clearInterval(pacingTimer); pacingTimer = null; return; }
PacerStops == closed

\* the pacing callback that waits for a whole frame
PacerIdle_UnderAFrame == Len(outQueue) < FrameSize

\* if (outQueue.length === 0) return;
PacerIdle == Len(outQueue) = 0

\* the pacing callback with a catch block that clears the interval
PacingTick_StopsOnFailure ==
  /\ pacingActive > 0
  /\ sentSinceDrain' =
       IF ~closed /\ Len(outQueue) > 0 /\ twilioState = "OPEN" /\ drainStartLen >= 0
         THEN Obs("drain", sentSinceDrain + 1, sentSinceDrain)
         ELSE sentSinceDrain
  /\ tickToggle' = Obs("cadence", ~tickToggle, tickToggle)
  /\ IF closed
       THEN /\ pacingActive' = IF pacingTimer THEN pacingActive - 1 ELSE pacingActive
            /\ pacingTimer' = FALSE
            /\ UNCHANGED <<outQueue, sentFrames, framesSent>>
       ELSE IF Len(outQueue) = 0
         THEN UNCHANGED <<pacingActive, pacingTimer, outQueue, sentFrames, framesSent>>
         ELSE /\ outQueue' = PacerRest(outQueue)
              /\ framesSent' = IF twilioState = "OPEN"
                                 THEN Obs("cadence", framesSent + 1, framesSent)
                                 ELSE framesSent
              /\ sentFrames' =
                   IF twilioState = "OPEN"
                     THEN Obs("pacer",
                              Append(sentFrames, [streamSid |-> streamSid,
                                                  payload   |-> PacerFrame(outQueue)]),
                              sentFrames)
                     ELSE sentFrames      \* the send fails: caught and logged
              /\ IF twilioState = "OPEN"
                   THEN UNCHANGED <<pacingActive, pacingTimer>>
                   ELSE /\ pacingActive' = pacingActive - 1
                        /\ pacingTimer' = FALSE
  /\ UNCHANGED <<streamSid, callSid, closed, commitTimer, awaitingResponse,
                 hangupRequested, hangupReason, hangupTimeout, pendingToolCalls,
                 socketVars, commitPending, keepAlive, drainChecks, graceTimeouts,
                 hangupFetches, inputVars, crashed, other, observe, oaSent, turnObs,
                 debounceObs, requestObs, lateObs, drainStartLen, enqSinceDrain,
                 enqAfterClosed, beatObs, codecVars, handledObs, msgObs,
                 terminateObs>>

\* the setInterval callback of enqueueToTwilio, every 20 ms
PacingTick ==
  /\ pacingActive > 0
  /\ sentSinceDrain' =
       IF ~closed /\ Len(outQueue) > 0 /\ twilioState = "OPEN" /\ drainStartLen >= 0
         THEN Obs("drain", sentSinceDrain + 1, sentSinceDrain)
         ELSE sentSinceDrain
  /\ tickToggle' = Obs("cadence", ~tickToggle, tickToggle)
  /\ IF PacerStops
       THEN /\ pacingActive' = IF pacingTimer THEN pacingActive - 1 ELSE pacingActive
            /\ pacingTimer' = FALSE
            /\ UNCHANGED <<outQueue, sentFrames, framesSent>>
       ELSE IF PacerIdle
         THEN UNCHANGED <<pacingActive, pacingTimer, outQueue, sentFrames, framesSent>>
         ELSE /\ outQueue' = PacerRest(outQueue)
              /\ framesSent' = IF twilioState = "OPEN"
                                 THEN Obs("cadence", framesSent + 1, framesSent)
                                 ELSE framesSent
              /\ sentFrames' =
                   IF twilioState = "OPEN"
                     THEN Obs("pacer",
                              Append(sentFrames, [streamSid |-> streamSid,
                                                  payload   |-> PacerFrame(outQueue)]),
                              sentFrames)
                     ELSE sentFrames      \* the send fails: caught and logged
              /\ UNCHANGED <<pacingActive, pacingTimer>>
  /\ UNCHANGED <<streamSid, callSid, closed, commitTimer, awaitingResponse,
                 hangupRequested, hangupReason, hangupTimeout, pendingToolCalls,
                 socketVars, commitPending, keepAlive, drainChecks, graceTimeouts,
                 hangupFetches, inputVars, crashed, other, observe, oaSent, turnObs,
                 debounceObs, requestObs, lateObs, drainStartLen, enqSinceDrain,
                 enqAfterClosed, beatObs, codecVars, handledObs, msgObs,
                 terminateObs>>

-----------------------------------------------------------------------------
(* Turn controller *)

\* a clearTimeout that cancels nothing
ClearCommit_KeepsPending(pending, handle) == pending

\* clearTimeout(commitTimer): removes the timeout the handle refers to, if pending
ClearCommit(pending, handle) ==
  IF handle = "live" THEN SubSeq(pending, 1, Len(pending) - 1) ELSE pending

\* scheduleCommitAndRespond without its clearTimeout: the earlier timeout stays armed
scheduleCommitAndRespond_NoClear(delay) ==
  /\ commitPending' = Append(commitPending, delay)
  /\ commitTimer' = "live"

\* scheduleCommitAndRespond that leaves a pending timeout to its deadline
scheduleCommitAndRespond_KeepsDeadline(delay) ==
  /\ commitPending' = IF ClearCommit(commitPending, commitTimer) = commitPending
                         THEN Append(commitPending, delay) ELSE commitPending
  /\ commitTimer' = "live"

\* scheduleCommitAndRespond(delay): cancel the pending timeout, arm a new one
scheduleCommitAndRespond(delay) ==
  /\ commitPending' = Append(ClearCommit(commitPending, commitTimer), delay)
  /\ commitTimer' = "live"

\* a commit that asks for a response whatever awaitingResponse says
CommitAsksResponse_Always == TRUE

\* if (!awaitingResponse): the commit is followed by a response.create
CommitAsksResponse == ~awaitingResponse

\* the setTimeout callback of scheduleCommitAndRespond, for the i-th pending timeout
CommitTimerFire(i) ==
  /\ i \in 1..Len(commitPending)
  /\ commitPending[i] = 0
  /\ commitPending' = SubSeq(commitPending, 1, i - 1)
                        \o SubSeq(commitPending, i + 1, Len(commitPending))
  /\ commitTimer' = IF i = Len(commitPending) /\ commitTimer = "live"
                      THEN "stale" ELSE commitTimer
  /\ sinceMedia' = Obs("debounce", IF Len(commitPending) = 1 THEN -1 ELSE sinceMedia,
                       sinceMedia)
  /\ IF oaState # "OPEN"
       THEN UNCHANGED <<oaSent, awaitingResponse, respInFlight, commitsSinceMedia,
                        createsSinceMedia, lateCreates>>
       ELSE /\ commitsSinceMedia' = Obs("debounce", commitsSinceMedia + 1,
                                        commitsSinceMedia)
            /\ IF CommitAsksResponse
                 THEN /\ awaitingResponse' = TRUE
                      /\ oaSent' = Obs("sent",
                                       OaSend(OaSend(oaSent, "input_audio_buffer.commit"),
                                              "response.create"),
                                       oaSent)
                      /\ respInFlight' = Obs("turn", respInFlight + 1, respInFlight)
                      /\ createsSinceMedia' = Obs("debounce", createsSinceMedia + 1,
                                                  createsSinceMedia)
                      /\ lateCreates' = IF lateMedia
                                          THEN Obs("request", lateCreates + 1, lateCreates)
                                          ELSE lateCreates
                 ELSE /\ oaSent' = Obs("sent",
                                       OaSend(oaSent, "input_audio_buffer.commit"), oaSent)
                      /\ UNCHANGED <<awaitingResponse, respInFlight,
                                     createsSinceMedia, lateCreates>>
  /\ UNCHANGED <<streamSid, callSid, closed, outQueue, pacingTimer, hangupRequested,
                 hangupReason, hangupTimeout, pendingToolCalls, socketVars,
                 pacingActive, keepAlive, drainChecks, graceTimeouts, hangupFetches,
                 inputVars, crashed, other, observe, sentFrames, lastGap, oaErrorsLogged,
                 requestObs, lateMedia, drainObs, cadenceObs, beatObs, codecVars, handledObs, msgObs,
                 terminateObs>>

\* d ms pass while a debounce timeout is pending: none of them is overdue
Tick(d) ==
  /\ Len(commitPending) > 0
  /\ \A i \in 1..Len(commitPending) : commitPending[i] >= d
  /\ commitPending' = [i \in 1..Len(commitPending) |-> commitPending[i] - d]
  /\ sinceMedia' = IF sinceMedia < 0 THEN sinceMedia
                   ELSE Min(sinceMedia + d, DebounceMs + d)
  /\ UNCHANGED <<sessionVars, socketVars, pacingActive, keepAlive, drainChecks,
                 graceTimeouts, hangupFetches, inputVars, crashed, other, observe, sentFrames, oaSent,
                 respInFlight, commitsSinceMedia, createsSinceMedia, lastGap,
                 oaErrorsLogged, requestObs, lateObs, drainObs, cadenceObs, beatObs, codecVars, handledObs, msgObs,
                 terminateObs>>

-----------------------------------------------------------------------------
(* Hangup coordinator *)

\* twilioHangupNow without its test of callSid
HangupNowIssues_AnyCall == TwilioCredsSet

\* twilioHangupNow(reason) issues the Call Control request
HangupNowIssues == callSid # "" /\ TwilioCredsSet

\* the first call of drainAndHangup, for the observation variables
DrainStarts ==
  drainStartLen' = IF drainStartLen < 0
                     THEN Obs("drain", Len(outQueue), drainStartLen)
                     ELSE drainStartLen

\* drainAndHangup(reason): arms one drain-poll interval (reason is only logged)
drainAndHangup(reason) ==
  /\ drainChecks' = drainChecks + 1
  /\ pollersStarted' = Obs("terminate", pollersStarted + 1, pollersStarted)

\* requestHangup that arms no fallback timeout
requestHangup_NoFallback(reason, sayGoodbye) ==
  /\ triggers' = ObsIn({"request", "terminate"}, triggers + 1, triggers)
  /\ lastTriggerReason' = Obs("request", reason, lastTriggerReason)
  /\ IF hangupRequested
       THEN UNCHANGED <<hangupRequested, hangupReason, hangupTimeout, goodbyeSent,
                        reqWhileAwaiting, oaOpenAtRequest, finishedSinceRequest>>
       ELSE /\ hangupRequested' = TRUE
            /\ hangupReason' = reason
            /\ goodbyeSent' = IF sayGoodbye /\ oaState = "OPEN"
                                THEN ObsIn({"request", "terminate", "sent"}, goodbyeSent + 1,
                                           goodbyeSent)
                                ELSE goodbyeSent
            /\ hangupTimeout' = hangupTimeout
            /\ oaOpenAtRequest' = Obs("request", oaState = "OPEN", oaOpenAtRequest)
            /\ reqWhileAwaiting' = Obs("terminate", awaitingResponse, reqWhileAwaiting)
            /\ finishedSinceRequest' = FALSE

\* requestHangup whose guard comes after the assignment of hangupReason
requestHangup_ReasonOverwritten(reason, sayGoodbye) ==
  /\ triggers' = ObsIn({"request", "terminate"}, triggers + 1, triggers)
  /\ lastTriggerReason' = Obs("request", reason, lastTriggerReason)
  /\ hangupReason' = reason
  /\ IF hangupRequested
       THEN UNCHANGED <<hangupRequested, hangupTimeout, goodbyeSent,
                        reqWhileAwaiting, oaOpenAtRequest, finishedSinceRequest>>
       ELSE /\ hangupRequested' = TRUE
            /\ goodbyeSent' = IF sayGoodbye /\ oaState = "OPEN"
                                THEN ObsIn({"request", "terminate", "sent"}, goodbyeSent + 1,
                                           goodbyeSent)
                                ELSE goodbyeSent
            /\ hangupTimeout' = "pending"
            /\ oaOpenAtRequest' = Obs("request", oaState = "OPEN", oaOpenAtRequest)
            /\ reqWhileAwaiting' = Obs("terminate", awaitingResponse, reqWhileAwaiting)
            /\ finishedSinceRequest' = FALSE

\* requestHangup without its "if (hangupRequested) return"
requestHangup_NoGuard(reason, sayGoodbye) ==
  /\ triggers' = ObsIn({"request", "terminate"}, triggers + 1, triggers)
  /\ lastTriggerReason' = Obs("request", reason, lastTriggerReason)
  /\ hangupRequested' = TRUE
  /\ hangupReason' = reason
  /\ goodbyeSent' = IF sayGoodbye /\ oaState = "OPEN"
                      THEN ObsIn({"request", "terminate", "sent"}, goodbyeSent + 1,
                                           goodbyeSent)
                      ELSE goodbyeSent
  /\ hangupTimeout' = "pending"
  /\ oaOpenAtRequest' = Obs("request", oaState = "OPEN", oaOpenAtRequest)
  /\ reqWhileAwaiting' = Obs("terminate", awaitingResponse, reqWhileAwaiting)
  /\ finishedSinceRequest' = FALSE

\* requestHangup whose goodbye respects the single-in-flight limit
requestHangup_GoodbyeIfIdle(reason, sayGoodbye) ==
  /\ triggers' = ObsIn({"request", "terminate"}, triggers + 1, triggers)
  /\ lastTriggerReason' = Obs("request", reason, lastTriggerReason)
  /\ IF hangupRequested
       THEN UNCHANGED <<hangupRequested, hangupReason, hangupTimeout, goodbyeSent,
                        reqWhileAwaiting, oaOpenAtRequest, finishedSinceRequest>>
       ELSE /\ hangupRequested' = TRUE
            /\ hangupReason' = reason
            /\ goodbyeSent' = IF sayGoodbye /\ oaState = "OPEN" /\ ~awaitingResponse
                                THEN ObsIn({"request", "terminate", "sent"}, goodbyeSent + 1,
                                           goodbyeSent)
                                ELSE goodbyeSent
            /\ hangupTimeout' = "pending"
            /\ oaOpenAtRequest' = Obs("request", oaState = "OPEN", oaOpenAtRequest)
            /\ reqWhileAwaiting' = Obs("terminate", awaitingResponse, reqWhileAwaiting)
            /\ finishedSinceRequest' = FALSE

\* requestHangup(reason, sayGoodbye)
requestHangup(reason, sayGoodbye) ==
  /\ triggers' = ObsIn({"request", "terminate"}, triggers + 1, triggers)
  /\ lastTriggerReason' = Obs("request", reason, lastTriggerReason)
  /\ IF hangupRequested
       THEN UNCHANGED <<hangupRequested, hangupReason, hangupTimeout, goodbyeSent,
                        reqWhileAwaiting, oaOpenAtRequest, finishedSinceRequest>>
       ELSE /\ hangupRequested' = TRUE
            /\ hangupReason' = reason
            /\ goodbyeSent' = IF sayGoodbye /\ oaState = "OPEN"
                                THEN ObsIn({"request", "terminate", "sent"}, goodbyeSent + 1,
                                           goodbyeSent)
                                ELSE goodbyeSent
            /\ hangupTimeout' = "pending"
            /\ oaOpenAtRequest' = Obs("request", oaState = "OPEN", oaOpenAtRequest)
            /\ reqWhileAwaiting' = Obs("terminate", awaitingResponse, reqWhileAwaiting)
            /\ finishedSinceRequest' = FALSE

\* the setTimeout callback of requestHangup, 2500 ms after the request
HangupTimeoutFire ==
  /\ hangupTimeout = "pending"
  /\ hangupTimeout' = "fired"
  /\ drainAndHangup(hangupReason)
  /\ DrainStarts
  /\ UNCHANGED <<streamSid, callSid, closed, outQueue, pacingTimer, commitTimer,
                 awaitingResponse, hangupRequested, hangupReason, pendingToolCalls,
                 socketVars, pacingActive, commitPending, keepAlive, graceTimeouts,
                 hangupFetches, inputVars, crashed, other, observe, sentFrames, oaSent, turnObs,
                 debounceObs, requestObs, lateObs, sentSinceDrain, enqSinceDrain,
                 cadenceObs, beatObs, codecVars, handledObs, msgObs,
                 reqWhileAwaiting, finishedSinceRequest, callControlRequests,
                 hangupCloses>>

\* the drain poll without its test of outQueue.length
DrainCheckTick_NoQueueTest ==
  /\ drainChecks > 0
  /\ drainChecks' = drainChecks - 1
  /\ graceTimeouts' = graceTimeouts + 1
  /\ UNCHANGED <<sessionVars, socketVars, pacingActive, commitPending, keepAlive,
                 hangupFetches, inputVars, crashed, other, obsVars>>

\* the setInterval callback of drainAndHangup ("check"), every 30 ms
DrainCheckTick ==
  /\ drainChecks > 0
  /\ IF Len(outQueue) = 0
       THEN /\ drainChecks' = drainChecks - 1
            /\ graceTimeouts' = graceTimeouts + 1
       ELSE UNCHANGED <<drainChecks, graceTimeouts>>
  /\ UNCHANGED <<sessionVars, socketVars, pacingActive, commitPending, keepAlive,
                 hangupFetches, inputVars, crashed, other, obsVars>>

\* the setTimeout callback of the drain poll, 120 ms after the queue was seen
\* empty, up to the await of the Call Control request
GraceTimeoutFire ==
  /\ graceTimeouts > 0
  /\ graceTimeouts' = graceTimeouts - 1
  /\ IF HangupNowIssues
       THEN /\ callControlRequests' =
                 ObsIn({"terminate", "drain"}, callControlRequests + 1, callControlRequests)
            /\ hangupFetches' = hangupFetches + 1
            /\ UNCHANGED <<oaState, twilioState, hangupCloses>>
       ELSE /\ oaState' = OaCloseCall(oaState)
            /\ twilioState' = TwilioCloseCall(twilioState)
            /\ hangupCloses' = ObsIn({"terminate", "drain"}, hangupCloses + 1, hangupCloses)
            /\ UNCHANGED <<callControlRequests, hangupFetches>>
  /\ UNCHANGED <<sessionVars, pacingActive, commitPending, keepAlive, drainChecks,
                 inputVars, crashed, other, observe, sentFrames, oaSent, turnObs,
                 debounceObs, requestObs, lateObs, drainObs, cadenceObs, beatObs, codecVars, handledObs, msgObs,
                 reqWhileAwaiting, finishedSinceRequest, pollersStarted>>

\* the Call Control request is answered (or fails): the grace callback resumes
\* after its await and closes both peers
HangupFetchDone ==
  /\ hangupFetches > 0
  /\ hangupFetches' = hangupFetches - 1
  /\ oaState' = OaCloseCall(oaState)
  /\ twilioState' = TwilioCloseCall(twilioState)
  /\ hangupCloses' = ObsIn({"terminate", "drain"}, hangupCloses + 1, hangupCloses)
  /\ UNCHANGED <<sessionVars, pacingActive, commitPending, keepAlive, drainChecks,
                 graceTimeouts, inputVars, crashed, other, observe, sentFrames, oaSent, turnObs,
                 debounceObs, requestObs, lateObs, drainObs, cadenceObs, beatObs, codecVars, handledObs, msgObs,
                 reqWhileAwaiting, finishedSinceRequest, pollersStarted,
                 callControlRequests>>

-----------------------------------------------------------------------------
(* AI Peer handlers *)

\* oa.on("open") that sends the greeting before the session setup
OaOpen_GreetingFirst ==
  /\ oaState = "CONNECTING"
  /\ oaState' = "OPEN"
  /\ oaSent' = Obs("sent", OaSend(OaSend(oaSent, "response.create"), "session.update"),
                   oaSent)
  /\ respInFlight' = Obs("turn", respInFlight + 1, respInFlight)
  /\ UNCHANGED <<sessionVars, twilioState, timerVars, inputVars, crashed, other, observe, sentFrames,
                 sinceMedia, commitsSinceMedia, createsSinceMedia, lastGap,
                 oaErrorsLogged, requestObs, lateObs, drainObs, cadenceObs, beatObs, codecVars, handledObs, msgObs,
                 terminateObs>>

\* oa.on("open"): session.update, then the greeting response.create
OaOpen ==
  /\ oaState = "CONNECTING"
  /\ oaState' = "OPEN"
  /\ oaSent' = Obs("sent", OaSend(OaSend(oaSent, "session.update"), "response.create"),
                   oaSent)
  /\ respInFlight' = Obs("turn", respInFlight + 1, respInFlight)
  /\ UNCHANGED <<sessionVars, twilioState, timerVars, inputVars, crashed, other, observe, sentFrames,
                 sinceMedia, commitsSinceMedia, createsSinceMedia, lastGap,
                 oaErrorsLogged, requestObs, lateObs, drainObs, cadenceObs, beatObs, codecVars, handledObs, msgObs,
                 terminateObs>>

\* msg.item_id || msg.tool_call_id || "default"
ToolCallId(msg) == Or(msg.item_id, Or(msg.tool_call_id, "default"))

\* the length enqueued by the audio-delta branches (-1: none of them applies)
\* the handler that knows only the current spelling of the audio delta
AudioDeltaLen_OneSpelling(msg) ==
  CASE msg.type = "response.audio.delta" /\ msg.deltaLen > 0 -> msg.deltaLen
    [] OTHER -> -1

AudioDeltaLen(msg) ==
  CASE msg.type = "response.audio.delta" /\ msg.deltaLen > 0 -> msg.deltaLen
    [] msg.type = "response.output_audio.delta" /\ msg.deltaLen > 0 -> msg.deltaLen
    [] msg.type = "response.delta" /\ msg.deltaAudioLen >= 0 -> msg.deltaAudioLen
    [] OTHER -> -1

\* the "backup signals (non-delta)" condition
LegacyHangupSignal(msg) ==
  \/ msg.type = "response.tool_call.created" /\ msg.tool_dot_name = "hangup_call"
  \/ msg.type = "response.tool_call.delta" /\ msg.tool_name = "hangup_call"
  \/ msg.type = "response.tool_call.completed"
       /\ (msg.name = "hangup_call" \/ msg.tool_name = "hangup_call")

\* the pending entry a function_call_arguments.done message completes
DoneEntry(msg) == pendingToolCalls[ToolCallId(msg)]
DoneToolName(msg) == Or(DoneEntry(msg).name, Or(msg.name, msg.tool_name))
\* the hangup_call test of a handler that gives up when the arguments give no reason
DoneIsHangup_NeedsReason(msg) ==
  /\ msg.type = "response.function_call_arguments.done"
  /\ DoneEntry(msg).present
  /\ DoneToolName(msg) = "hangup_call"
  /\ ArgsReason(DoneEntry(msg).argsChunk) # ""
DoneIsHangup(msg) ==
  /\ msg.type = "response.function_call_arguments.done"
  /\ DoneEntry(msg).present
  /\ DoneToolName(msg) = "hangup_call"

\* the user-transcript condition with a farewell in the utterance
FarewellTranscript(msg) ==
  /\ TypeIncludes(msg.type, "input_audio_transcription")
  /\ FAREWELL_RE_test(Or(msg.transcript, msg.text))

\* ackToolOutput that sends whatever the state of the connection
ackToolOutput_NoGuard(sent) == Obs("sent", OaSend(sent, "response.tool_output"), sent)

\* ackToolOutput(tool_call_id, payload)
ackToolOutput(sent) ==
  IF oaState # "OPEN" THEN sent ELSE Obs("sent", OaSend(sent, "response.tool_output"), sent)

\* oa.on("message"), the audio-delta branches
OaAudioPart(msg) ==
  IF AudioDeltaLen(msg) >= 0
    THEN enqueueToTwilio(AudioDeltaLen(msg))
    ELSE UNCHANGED <<outQueue, enqueuedBytes, pacingTimer, pacingActive>>

\* oa.on("message"), the tool-call argument buffering and the acknowledgement
OaToolPart(msg) ==
  LET id == ToolCallId(msg) IN
  CASE msg.type = "response.function_call_arguments.delta" ->
         LET old   == pendingToolCalls[id]
             named == Or(msg.name, msg.tool_name)
             entry == [present   |-> TRUE,
                       name      |-> IF named # "" THEN named
                                     ELSE IF old.present THEN old.name ELSE "",
                       argsChunk |-> (IF old.present THEN old.argsChunk ELSE "")
                                       \o msg.args]
         IN /\ pendingToolCalls' = [pendingToolCalls EXCEPT ![id] = entry]
            /\ UNCHANGED oaSent
    [] msg.type = "response.function_call_arguments.done" /\ DoneEntry(msg).present ->
         /\ pendingToolCalls' = [pendingToolCalls EXCEPT ![id] = NoEntry]
         /\ oaSent' = IF DoneIsHangup(msg) THEN ackToolOutput(oaSent) ELSE oaSent
    [] OTHER -> UNCHANGED <<pendingToolCalls, oaSent>>

\* oa.on("message"), a function_call_arguments.done that names hangup_call
OaOnHangupTool(msg) ==
  /\ requestHangup(Or(ArgsReason(DoneEntry(msg).argsChunk), "tool"), TRUE)
  /\ UNCHANGED <<awaitingResponse, drainChecks, pollersStarted, respInFlight>>

\* oa.on("message"), the backup signals
OaOnLegacySignal(msg) ==
  /\ requestHangup("tool-legacy", TRUE)
  /\ UNCHANGED <<awaitingResponse, drainChecks, pollersStarted, respInFlight>>

\* the farewell branch starting the drain poll at once instead of deferring it
OaOnFarewell_DrainsAtOnce(msg) ==
  /\ requestHangup("user-farewell", TRUE)
  /\ drainAndHangup("user-farewell")
  /\ UNCHANGED <<awaitingResponse, respInFlight>>

\* oa.on("message"), a user transcript with a farewell
OaOnFarewell(msg) ==
  /\ requestHangup("user-farewell", TRUE)
  /\ UNCHANGED <<awaitingResponse, drainChecks, pollersStarted, respInFlight>>

\* oa.on("message"), response.completed / response.error
OaOnFinished(msg) ==
  /\ awaitingResponse' = FALSE
  /\ respInFlight' = 0
  /\ IF hangupRequested
       THEN /\ drainAndHangup(hangupReason)
            /\ finishedSinceRequest' = Obs("terminate", TRUE, finishedSinceRequest)
       ELSE UNCHANGED <<drainChecks, pollersStarted, finishedSinceRequest>>
  /\ UNCHANGED <<hangupRequested, hangupReason, hangupTimeout, requestObs,
                 reqWhileAwaiting>>

\* oa.on("message"), the hangup triggers and the response-finished branch
OaHangupPart(msg) ==
  CASE DoneIsHangup(msg) -> OaOnHangupTool(msg)
    [] LegacyHangupSignal(msg) -> OaOnLegacySignal(msg)
    [] FarewellTranscript(msg) -> OaOnFarewell(msg)
    [] msg.type \in {"response.completed", "response.error"} -> OaOnFinished(msg)
    [] OTHER ->
         /\ respInFlight' = IF msg.type = "error" THEN 0 ELSE respInFlight
         /\ UNCHANGED <<awaitingResponse, drainChecks, pollersStarted,
                        finishedSinceRequest, hangupRequested, hangupReason,
                        hangupTimeout, requestObs, reqWhileAwaiting>>

\* oa.on("message"), the closing console.warn("[OA ERROR]", ...)
OaErrorLogPart(msg) ==
  oaErrorsLogged' = IF TypeIncludes(msg.type, "error") \/ msg.error
                      THEN Obs("turn", oaErrorsLogged + 1, oaErrorsLogged)
                      ELSE oaErrorsLogged

\* the text is not JSON, or the JSON has no type or a type no peer sends
OaMalformed(msg) == ~msg.valid \/ msg.type \in {"", "bogus.event"}

\* a completed assistant transcript with a farewell in it
AssistantFarewell(msg) ==
  /\ msg.type = AssistantTranscriptType
  /\ FAREWELL_RE_test(Or(msg.transcript, msg.text))

\* a function_call_arguments.done whose pending entry or own fields name hangup_call
DoneNamesHangup(msg) ==
  /\ msg.type = "response.function_call_arguments.done"
  /\ Or(IF DoneEntry(msg).present THEN DoneEntry(msg).name ELSE "",
        Or(msg.name, msg.tool_name)) = "hangup_call"

\* the groups that record the message the handler was given
HandledGroups == {"delta", "partial", "late"}

\* what the handler was given, for the observation variables
OaObservePart(msg) ==
  /\ namedDones' = IF msg.valid /\ DoneNamesHangup(msg)
                     THEN Obs("tool", namedDones + 1, namedDones) ELSE namedDones
  /\ malformedSeen' = IF OaMalformed(msg)
                        THEN Obs("msg", TRUE, malformedSeen) ELSE malformedSeen
  /\ sawAssistantFarewell' = IF msg.valid /\ AssistantFarewell(msg)
                               THEN Obs("msg", TRUE, sawAssistantFarewell)
                               ELSE sawAssistantFarewell
  /\ enqSinceDrain' = IF msg.valid /\ AudioDeltaLen(msg) >= 0 /\ drainStartLen >= 0
                        THEN Obs("drain", TRUE, enqSinceDrain) ELSE enqSinceDrain
  /\ enqAfterClosed' = IF msg.valid /\ AudioDeltaLen(msg) >= 0 /\ closed
                         THEN Obs("cadence", TRUE, enqAfterClosed) ELSE enqAfterClosed
  /\ oaHandled' = ObsIn(HandledGroups, ~oaHandled, oaHandled)
  /\ lastOaMsg' = ObsIn(HandledGroups, msg, lastOaMsg)

\* the handler takes one of its branches on msg (argument deltas, which only
\* grow a pending entry, are bounded by MaxArgsLen instead)
OaBranchTaken(msg) ==
  /\ msg.valid
  /\ \/ AudioDeltaLen(msg) >= 0
     \/ msg.type \in {"response.function_call_arguments.done",
                      "response.completed", "response.error"}
     \/ LegacyHangupSignal(msg)
     \/ FarewellTranscript(msg)
     \/ TypeIncludes(msg.type, "error") \/ msg.error

\* oa.on("message", data)
OaMessage(msg) ==
  /\ oaState \in {"OPEN", "CLOSING"}
  /\ OaBranchTaken(msg) => oaMsgs < MaxOaMsgs
  /\ AudioDeltaLen(msg) >= 0 => enqueuedBytes + AudioDeltaLen(msg) <= ByteBudget
  /\ msg.type = "response.function_call_arguments.delta" =>
       Len(pendingToolCalls[ToolCallId(msg)].argsChunk) + Len(msg.args) <= MaxArgsLen
  /\ oaMsgs' = IF OaBranchTaken(msg) THEN oaMsgs + 1 ELSE oaMsgs
  /\ OaObservePart(msg)
  /\ IF ~msg.valid
       THEN UNCHANGED <<outQueue, enqueuedBytes, pacingTimer, pacingActive,
                        pendingToolCalls, oaSent, awaitingResponse, drainChecks,
                        pollersStarted, respInFlight, finishedSinceRequest,
                        hangupRequested, hangupReason, hangupTimeout, requestObs,
                        reqWhileAwaiting, oaErrorsLogged>>
       ELSE /\ OaAudioPart(msg)
            /\ OaToolPart(msg)
            /\ OaHangupPart(msg)
            /\ OaErrorLogPart(msg)
  /\ IF drainChecks' > drainChecks THEN DrainStarts ELSE UNCHANGED drainStartLen
  /\ lateRequest' = IF closed /\ ~hangupRequested /\ hangupRequested'
                      THEN Obs("late", TRUE, lateRequest) ELSE lateRequest
  /\ UNCHANGED <<streamSid, callSid, closed, commitTimer, crashed, other, socketVars,
                 commitPending, keepAlive, graceTimeouts, hangupFetches, mediaMsgs, observe,
                 sentFrames, sinceMedia, commitsSinceMedia, createsSinceMedia, lastGap,
                 lateObs, sentSinceDrain, tickToggle, framesSent, beatObs, codecVars,
                 callControlRequests,
                 hangupCloses>>

\* an uncaught exception in a handler: the process exits, its sockets are
\* closed and its timers are gone
ProcessCrash ==
  /\ crashed' = TRUE
  /\ other' = [other EXCEPT !.oaState = "CLOSED", !.twilioState = "CLOSED",
                            !.keepAlive = FALSE]
  /\ oaState' = "CLOSED"
  /\ twilioState' = "CLOSED"
  /\ pacingActive' = 0
  /\ commitPending' = <<>>
  /\ keepAlive' = FALSE
  /\ drainChecks' = 0
  /\ graceTimeouts' = 0
  /\ hangupFetches' = 0
  /\ hangupTimeout' = IF hangupTimeout = "pending" THEN "cleared" ELSE hangupTimeout
  /\ UNCHANGED <<streamSid, callSid, closed, outQueue, pacingTimer, commitTimer,
                 awaitingResponse, hangupRequested, hangupReason, pendingToolCalls,
                 inputVars>>

\* oa.on("message", data) when data is the JSON text null: JSON.parse gives
\* null and reading msg.type throws a TypeError nothing catches
OaMessageJsonNull ==
  /\ oaState \in {"OPEN", "CLOSING"}
  /\ ProcessCrash
  /\ malformedSeen' = Obs("msg", TRUE, malformedSeen)
  /\ UNCHANGED <<observe, sentFrames, oaSent, turnObs, debounceObs, requestObs, lateObs, drainObs, cadenceObs, beatObs, codecVars, handledObs,
                 namedDones, sawAssistantFarewell, terminateObs>>

\* oa.on("error"): logs only
OaError ==
  /\ oaState \in {"CONNECTING", "OPEN", "CLOSING", "ABORTING"}
  /\ UNCHANGED vars

\* oa.on("close") that only logs
OaClose_KeepsTelephony ==
  /\ oaState \in {"CONNECTING", "OPEN", "CLOSING", "ABORTING"}
  /\ oaState' = "CLOSED"
  /\ UNCHANGED <<sessionVars, twilioState, timerVars, inputVars, crashed, other, obsVars>>

\* oa.on("close")
OaClose ==
  /\ oaState \in {"CONNECTING", "OPEN", "CLOSING", "ABORTING"}
  /\ oaState' = "CLOSED"
  /\ twilioState' = IF ~closed THEN TwilioCloseCall(twilioState) ELSE twilioState
  /\ UNCHANGED <<sessionVars, timerVars, inputVars, crashed, other, obsVars>>

-----------------------------------------------------------------------------
(* Telephony Peer handlers *)

\* the cancellations without clearInterval(keepAlive)
CancelTimers_KeepsHeartbeat ==
  /\ closed' = TRUE
  /\ commitPending' = ClearCommit(commitPending, commitTimer)
  /\ commitTimer' = "null"
  /\ pacingActive' = IF pacingTimer THEN pacingActive - 1 ELSE pacingActive
  /\ pacingTimer' = FALSE
  /\ keepAlive' = keepAlive
  /\ hangupTimeout' = IF hangupTimeout = "pending" THEN "cleared" ELSE hangupTimeout
  /\ sinceMedia' = Obs("debounce",
                       IF ClearCommit(commitPending, commitTimer) = <<>>
                         THEN -1 ELSE sinceMedia,
                       sinceMedia)

\* the timer cancellations shared by "stop" and twilio.on("close")
CancelTimers ==
  /\ closed' = TRUE
  /\ commitPending' = ClearCommit(commitPending, commitTimer)
  /\ commitTimer' = "null"
  /\ pacingActive' = IF pacingTimer THEN pacingActive - 1 ELSE pacingActive
  /\ pacingTimer' = FALSE
  /\ keepAlive' = FALSE
  /\ hangupTimeout' = IF hangupTimeout = "pending" THEN "cleared" ELSE hangupTimeout
  /\ sinceMedia' = Obs("debounce",
                       IF ClearCommit(commitPending, commitTimer) = <<>>
                         THEN -1 ELSE sinceMedia,
                       sinceMedia)

\* the text is not JSON, or the JSON has no event or an event no peer sends
TwMalformed(m) == ~m.valid \/ m.event \in {"", "bogus"}

\* the "start" branch taking the stream identifier from the message alone
StartStreamSid_NoFallback(m) == Or(m.startStreamSid, m.topStreamSid)

\* m.start?.streamSid || m.streamSid || streamSid || "STREAM"
StartStreamSid(m) ==
  Or(m.startStreamSid, Or(m.topStreamSid, Or(streamSid, "STREAM")))

\* twilio.on("message", raw)
TwilioMessage(m) ==
  /\ twilioState \in {"OPEN", "CLOSING"}
  /\ m.event = "media" => mediaMsgs < MaxMedia
  /\ CASE m.valid /\ m.event = "start" ->
            /\ streamSid' = StartStreamSid(m)
            /\ callSid' = Or(m.startCallSid, Or(m.topCallSid, Or(callSid, "")))
            /\ UNCHANGED <<closed, outQueue, pacingTimer, commitTimer, awaitingResponse,
                           hangupRequested, hangupReason, hangupTimeout,
                           pendingToolCalls, socketVars, timerVars, inputVars, crashed, other, obsVars>>
       [] m.valid /\ m.event = "media" ->
            /\ mediaMsgs' = mediaMsgs + 1
            /\ IF m.payload = "" \/ oaState # "OPEN"
                 THEN UNCHANGED <<oaSent, commitPending, commitTimer, sinceMedia,
                                  commitsSinceMedia, createsSinceMedia, lastGap,
                                  lateMedia>>
                 ELSE /\ oaSent' = Obs("sent", OaSend(oaSent, "input_audio_buffer.append"),
                                       oaSent)
                      /\ scheduleCommitAndRespond(DebounceMs)
                      /\ sinceMedia' = Obs("debounce", 0, sinceMedia)
                      /\ lateMedia' = Obs("request", hangupRequested, lateMedia)
                      /\ commitsSinceMedia' = 0
                      /\ createsSinceMedia' = 0
                      /\ lastGap' = Obs("debounce",
                                        IF commitTimer = "live" THEN sinceMedia ELSE -1,
                                        lastGap)
            /\ UNCHANGED <<streamSid, callSid, closed, outQueue, pacingTimer,
                           awaitingResponse, hangupRequested, hangupReason,
                           hangupTimeout, pendingToolCalls, socketVars, pacingActive,
                           keepAlive, drainChecks, graceTimeouts, hangupFetches,
                           enqueuedBytes, oaMsgs, crashed, other, observe, sentFrames,
                           respInFlight,
                           oaErrorsLogged, requestObs, lateCreates, drainObs, cadenceObs, beatObs, codecVars, handledObs, msgObs, terminateObs>>
       [] m.valid /\ m.event = "stop" ->
            /\ CancelTimers
            /\ oaState' = OaCloseCall(oaState)
            /\ twilioState' = TwilioCloseCall(twilioState)
            /\ UNCHANGED <<streamSid, callSid, outQueue, awaitingResponse,
                           hangupRequested, hangupReason, pendingToolCalls,
                           drainChecks, graceTimeouts, hangupFetches, inputVars, crashed, other,
                           observe, sentFrames, oaSent, respInFlight,
                           commitsSinceMedia, createsSinceMedia, lastGap,
                 oaErrorsLogged, requestObs, lateObs, drainObs, cadenceObs, beatObs, codecVars, handledObs, msgObs,
                           terminateObs>>
       [] OTHER ->
            /\ malformedSeen' = IF TwMalformed(m)
                                  THEN Obs("msg", TRUE, malformedSeen)
                                  ELSE malformedSeen
            /\ UNCHANGED <<sessionVars, crashed, other, socketVars, timerVars, inputVars,
                           observe, sentFrames, oaSent, turnObs, debounceObs,
                           requestObs, lateObs, drainObs, cadenceObs, beatObs, codecVars, handledObs, namedDones, sawAssistantFarewell,
                           terminateObs>>

\* twilio.on("message", raw) when raw is the JSON text null: reading m.event
\* throws a TypeError nothing catches
TwilioMessageJsonNull ==
  /\ twilioState \in {"OPEN", "CLOSING"}
  /\ ProcessCrash
  /\ malformedSeen' = Obs("msg", TRUE, malformedSeen)
  /\ UNCHANGED <<observe, sentFrames, oaSent, turnObs, debounceObs, requestObs, lateObs, drainObs, cadenceObs, beatObs, codecVars, handledObs,
                 namedDones, sawAssistantFarewell, terminateObs>>

\* twilio.on("close") without its oa.close()
TwilioClose_KeepsAiPeer ==
  /\ twilioState \in {"OPEN", "CLOSING"}
  /\ twilioState' = "CLOSED"
  /\ CancelTimers
  /\ oaState' = oaState
  /\ UNCHANGED <<streamSid, callSid, outQueue, awaitingResponse, hangupRequested,
                 hangupReason, pendingToolCalls, drainChecks, graceTimeouts,
                 hangupFetches, inputVars, crashed, other, observe, sentFrames, oaSent, respInFlight,
                 commitsSinceMedia, createsSinceMedia, lastGap,
                 oaErrorsLogged, requestObs, lateObs, drainObs, cadenceObs, beatObs, codecVars, handledObs, msgObs,
                 terminateObs>>

\* twilio.on("close")
TwilioClose ==
  /\ twilioState \in {"OPEN", "CLOSING"}
  /\ twilioState' = "CLOSED"
  /\ CancelTimers
  /\ oaState' = OaCloseCall(oaState)
  /\ UNCHANGED <<streamSid, callSid, outQueue, awaitingResponse, hangupRequested,
                 hangupReason, pendingToolCalls, drainChecks, graceTimeouts,
                 hangupFetches, inputVars, crashed, other, observe, sentFrames, oaSent, respInFlight,
                 commitsSinceMedia, createsSinceMedia, lastGap,
                 oaErrorsLogged, requestObs, lateObs, drainObs, cadenceObs, beatObs, codecVars, handledObs, msgObs,
                 terminateObs>>

\* oa.ping() and twilio.ping(): a ping reaches an open socket, on any other
\* the call throws and the exception is swallowed
PingReaches(oa, tw) ==
  CASE oa = "OPEN" /\ tw = "OPEN" -> "both"
    [] oa = "OPEN" -> "oa"
    [] tw = "OPEN" -> "twilio"
    [] OTHER -> "neither"

\* the keep-alive setInterval callback, every 15 s: pings both sockets
KeepAliveTick ==
  /\ keepAlive
  /\ beatToggle' = Obs("beat", ~beatToggle, beatToggle)
  /\ lastPing' = Obs("beat", PingReaches(oaState, twilioState), lastPing)
  /\ UNCHANGED <<sessionVars, crashed, other, socketVars, timerVars, inputVars,
                 observe, sentFrames, oaSent, turnObs, debounceObs, requestObs,
                 lateObs, drainObs, cadenceObs, codecVars, handledObs, msgObs, terminateObs>>

-----------------------------------------------------------------------------
(* The handlers of a second session, on its own closure variables *)

\* what no handler of the second session touches
OtherFrame == UNCHANGED <<sessionVars, socketVars, timerVars, inputVars, obsVars>>

\* oa.on("open") of the second session
OtherOaOpen ==
  /\ other.oaState = "CONNECTING"
  /\ other' = [other EXCEPT !.oaState = "OPEN"]
  /\ UNCHANGED crashed
  /\ OtherFrame

\* oa.on("close") of the second session
OtherOaClose ==
  /\ other.oaState \in {"CONNECTING", "OPEN", "CLOSING", "ABORTING"}
  /\ other' = [other EXCEPT
                 !.oaState = "CLOSED",
                 !.twilioState = IF ~other.closed THEN TwilioCloseCall(@) ELSE @]
  /\ UNCHANGED crashed
  /\ OtherFrame

\* twilio.on("message") of the second session, event "stop"
OtherTwilioStop ==
  /\ other.twilioState \in {"OPEN", "CLOSING"}
  /\ other' = [other EXCEPT !.closed = TRUE, !.keepAlive = FALSE,
                            !.oaState = OaCloseCall(@),
                            !.twilioState = TwilioCloseCall(@)]
  /\ UNCHANGED crashed
  /\ OtherFrame

\* twilio.on("close") of the second session
OtherTwilioClose ==
  /\ other.twilioState \in {"OPEN", "CLOSING"}
  /\ other' = [other EXCEPT !.closed = TRUE, !.keepAlive = FALSE,
                            !.oaState = OaCloseCall(@),
                            !.twilioState = "CLOSED"]
  /\ UNCHANGED crashed
  /\ OtherFrame

\* a message handler of the second session given the JSON text null
OtherMessageJsonNull ==
  /\ other.twilioState \in {"OPEN", "CLOSING"} \/ other.oaState \in {"OPEN", "CLOSING"}
  /\ ProcessCrash
  /\ UNCHANGED obsVars

-----------------------------------------------------------------------------
Next ==
  \/ OaOpen
  \/ \E msg \in OaMsgs : OaMessage(msg)
  \/ OaMessageJsonNull
  \/ OaError
  \/ OaClose
  \/ \E m \in TwilioMsgs : TwilioMessage(m)
  \/ TwilioMessageJsonNull
  \/ TwilioClose
  \/ PacingTick
  \/ \E i \in 1..Len(commitPending) : CommitTimerFire(i)
  \/ \E d \in TimeSteps : Tick(d)
  \/ HangupTimeoutFire
  \/ DrainCheckTick
  \/ GraceTimeoutFire
  \/ HangupFetchDone
  \/ KeepAliveTick

\* two sessions in one process
NextIso ==
  \/ Next
  \/ OtherOaOpen
  \/ OtherOaClose
  \/ OtherTwilioStop
  \/ OtherTwilioClose
  \/ OtherMessageJsonNull

\* one specification per group of observation variables
Spec          == Init /\ [][Next]_vars
InitPacer == InitSession /\ observe = "pacer" /\ pcmSample = 0
SpecPacer == InitPacer /\ [][Next]_vars
InitSent == InitSession /\ observe = "sent" /\ pcmSample = 0
SpecSent == InitSent /\ [][Next]_vars
InitTurn == InitSession /\ observe = "turn" /\ pcmSample = 0
SpecTurn == InitTurn /\ [][Next]_vars
InitDebounce == InitSession /\ observe = "debounce" /\ pcmSample = 0
SpecDebounce == InitDebounce /\ [][Next]_vars
InitRequest == InitSession /\ observe = "request" /\ pcmSample = 0
SpecRequest == InitRequest /\ [][Next]_vars
InitTerminate == InitSession /\ observe = "terminate" /\ pcmSample = 0
SpecTerminate == InitTerminate /\ [][Next]_vars
InitTool == InitSession /\ observe = "tool" /\ pcmSample = 0
SpecTool == InitTool /\ [][Next]_vars
InitMsg == InitSession /\ observe = "msg" /\ pcmSample = 0
SpecMsg == InitMsg /\ [][Next]_vars

InitLife == InitSession /\ observe = "life" /\ pcmSample = 0
SpecLife == InitLife /\ [][Next]_vars

InitIso == InitSession /\ observe = "iso" /\ pcmSample = 0
SpecIso == InitIso /\ [][NextIso]_vars

\* a closing handshake that was started completes: the close event of a socket
\* in CLOSING is delivered
LifeFairness ==
  /\ WF_vars(TwilioClose /\ twilioState = "CLOSING")
  /\ WF_vars(OaClose /\ oaState \in {"CLOSING", "ABORTING"})
FairSpecLife == SpecLife /\ LifeFairness

InitCadence == InitSession /\ observe = "cadence" /\ pcmSample = 0
SpecCadence == InitCadence /\ [][Next]_vars

InitBeat == InitSession /\ observe = "beat" /\ pcmSample = 0
SpecBeat == InitBeat /\ [][Next]_vars

InitDelta == InitSession /\ observe = "delta" /\ pcmSample = 0
SpecDelta == InitDelta /\ [][Next]_vars

InitPartial == InitSession /\ observe = "partial" /\ pcmSample = 0
SpecPartial == InitPartial /\ [][Next]_vars

InitLate == InitSession /\ observe = "late" /\ pcmSample = 0
SpecLate == InitLate /\ [][Next]_vars

InitDrain == InitSession /\ observe = "drain" /\ pcmSample = 0
SpecDrain == InitDrain /\ [][Next]_vars

\* the timers of a live process fire: the pacing interval, the drain poll, the
\* grace timeout and the completion of the Call Control request
DrainFairness ==
  /\ WF_vars(PacingTick)
  /\ WF_vars(DrainCheckTick)
  /\ WF_vars(GraceTimeoutFire)
  /\ WF_vars(HangupFetchDone)
FairSpecDrain == SpecDrain /\ DrainFairness

\* and so does the fallback timeout of requestHangup
FallbackFairness == DrainFairness /\ WF_vars(HangupTimeoutFire)
FairSpecFallback == SpecDrain /\ FallbackFairness

-----------------------------------------------------------------------------
(* The mu-law encoder *)

BIAS == 132      \* 0x84
CLIP == 32635

\* the 16-bit signed samples
PcmSamples == -32768..32767

\* x >> n on a 32-bit integer (arithmetic shift) and the test of one mask bit
ShiftRight(x, n) == x \div (2 ^ n)
MaskBit(x, mask) == (x \div mask) % 2

\* for (expMask = 0x4000; (sample & expMask) === 0 && exponent > 0;
\*      exponent--, expMask >>= 1) {}
RECURSIVE ExponentLoop(_, _, _)
ExponentLoop(s, exponent, expMask) ==
  IF MaskBit(s, expMask) = 0 /\ exponent > 0
    THEN ExponentLoop(s, exponent - 1, expMask \div 2)
    ELSE exponent

pcm16ToUlawByte(sample) ==
  LET sign      == 128 * MaskBit(ShiftRight(sample, 8), 128)
      magnitude == IF sign # 0 THEN -sample ELSE sample
      clipped   == IF magnitude > CLIP THEN CLIP ELSE magnitude
      s         == clipped + BIAS
      exponent  == ExponentLoop(s, 7, 16384)
      mantissa  == ShiftRight(s, IF exponent = 0 THEN 4 ELSE exponent + 3) % 16
  IN  255 - (sign + exponent * 16 + mantissa)

\* one sample goes through the encoder (out[n] = pcm16ToUlawByte(s))
EncodeSample ==
  /\ ulawByte = -1
  /\ ulawByte' = pcm16ToUlawByte(pcmSample)
  /\ UNCHANGED <<sessionVars, crashed, other, socketVars, timerVars, inputVars,
                 observe, sentFrames, oaSent, turnObs, debounceObs, requestObs,
                 lateObs, drainObs, cadenceObs, beatObs, pcmSample, handledObs, msgObs,
                 terminateObs>>

InitCodec == InitSession /\ observe = "codec" /\ pcmSample \in PcmSamples
SpecCodec == InitCodec /\ [][EncodeSample]_vars

\* the companding reference: bias 0x84, clip 32635, byte = complement of
\* sign | exponent << 4 | mantissa, mantissa = (s >> (exponent + 3)) & 0x0F
UlawReference(sample) ==
  LET sign      == IF sample < 0 THEN 128 ELSE 0
      magnitude == IF sample < 0 THEN -sample ELSE sample
      s         == (IF magnitude > 32635 THEN 32635 ELSE magnitude) + 132
      exponent  == CHOOSE e \in 0..7 :
                     /\ s \div (2 ^ (e + 7)) > 0 \/ e = 0
                     /\ s \div (2 ^ (e + 8)) = 0
      mantissa  == (s \div (2 ^ (exponent + 3))) % 16
  IN  255 - (sign + exponent * 16 + mantissa)

\* C31: for every 16-bit signed sample the encoder returns the byte of the
\* standard 8-bit mu-law companding reference, the samples of small magnitude
\* (exponent 0; sample 0 gives the silence byte 0xFF) and -32768 included.
C31_EncoderIsMuLawReference ==
  ulawByte # -1 => ulawByte = UlawReference(pcmSample)

-----------------------------------------------------------------------------
(* Audio deltas *)

\* the spellings of the response-audio-delta event and the length of the
\* audio payload a message carries
AudioSpellings == {"response.audio.delta", "response.output_audio.delta",
                   "response.delta"}
AudioPayloadLen(msg) == IF msg.type = "response.delta" THEN msg.deltaAudioLen
                        ELSE msg.deltaLen

\* C32: a message of one of the three spellings of the audio delta that carries
\* a non-empty audio payload appends that payload's bytes to the pacer's queue
\* exactly once, behind what is queued (arrival order); a message of any other
\* type enqueues nothing, and nothing but an AI Peer message enqueues.
C32_EverySpellingEnqueuesOnce ==
  /\ [][oaHandled' # oaHandled =>
          LET msg == lastOaMsg'
              n   == AudioPayloadLen(msg)
          IN  /\ (msg.type \in AudioSpellings /\ n > 0) =>
                   /\ outQueue' = outQueue \o Bytes(enqueuedBytes, n)
                   /\ enqueuedBytes' = enqueuedBytes + n
              /\ msg.type \notin AudioSpellings =>
                   /\ outQueue' = outQueue
                   /\ enqueuedBytes' = enqueuedBytes]_vars
  /\ [][enqueuedBytes' # enqueuedBytes => oaHandled' # oaHandled]_vars

\* two payloads of different spellings are queued one behind the other
C32_Witness ==
  /\ lastOaMsg.type = "response.delta"
  /\ enqueuedBytes = 290
  /\ outQueue = Bytes(0, 290)

-----------------------------------------------------------------------------
(* Transcripts *)

\* C33: a partial transcript delta never requests the hangup, even when its
\* text holds a farewell phrase: farewell matching is applied to completed
\* utterance transcripts only.
C33_PartialTranscriptNeverRequests ==
  [][(oaHandled' # oaHandled /\ lastOaMsg'.type = PartialTranscriptType)
       => hangupRequested' = hangupRequested]_vars

-----------------------------------------------------------------------------
(* Session setup *)

\* C34: the session.update that declares the end-call tool is sent exactly once,
\* when the AI Peer opens, and it is the first message sent to the AI Peer: no
\* append, commit, response.create (greeting, debounce or goodbye) or tool
\* acknowledgement is sent before it.
C34_SetupSentOnceAndFirst ==
  /\ [](oaSent["session.update"] <= 1)
  /\ []((goodbyeSent > 0 \/ \E k \in OaKinds : oaSent[k] > 0)
          => /\ oaSent["first"] = "session.update"
             /\ oaSent["session.update"] = 1)
  /\ [][(oaState = "CONNECTING" /\ oaState' = "OPEN")
          => oaSent'["session.update"] = 1]_vars
  /\ [][goodbyeSent' > goodbyeSent => oaSent["session.update"] = 1]_vars

\* caller audio, a commit, an acknowledgement and the goodbye have all been sent
C34_Witness ==
  /\ oaSent["session.update"] = 1
  /\ oaSent["input_audio_buffer.append"] > 0
  /\ oaSent["input_audio_buffer.commit"] > 0
  /\ oaSent["response.tool_output"] > 0
  /\ goodbyeSent > 0

-----------------------------------------------------------------------------
(* Sends to the AI Peer *)

\* a step that begins and ends with the AI Peer connection not open
OaNotOpenStep == oaState # "OPEN" /\ oaState' # "OPEN"

\* C36: nothing is sent on the AI Peer connection unless it is open.  Caller
\* audio that arrives while it is not open is dropped: no append, no debounce
\* timer armed.  A debounce timeout or a hangup trigger that runs while it is
\* not open sends nothing and leaves awaitingResponse as it is.
C36_NoSendUnlessOaOpen ==
  /\ [][OaNotOpenStep => oaSent' = oaSent /\ goodbyeSent' = goodbyeSent]_vars
  /\ [][(OaNotOpenStep /\ mediaMsgs' # mediaMsgs)
          => UNCHANGED <<commitTimer, commitPending, awaitingResponse>>]_vars
  /\ [][(OaNotOpenStep /\ Len(commitPending') < Len(commitPending))
          => awaitingResponse' = awaitingResponse]_vars
  /\ [][(OaNotOpenStep /\ ~hangupRequested /\ hangupRequested')
          => awaitingResponse' = awaitingResponse]_vars

\* of two caller chunks one was forwarded and one dropped, and the debounce
\* timeout of the first ran after the AI Peer had gone: no commit was sent
C36_Witness ==
  /\ ~crashed
  /\ mediaMsgs = 2
  /\ oaSent["input_audio_buffer.append"] = 1
  /\ oaSent["input_audio_buffer.commit"] = 0
  /\ commitTimer = "stale"
  /\ oaState = "CLOSED"

-----------------------------------------------------------------------------
(* Late AI Peer messages *)

\* C39: a message of the AI Peer handled after the session was closed arms no
\* timer (pacing interval, fallback timeout, drain poll, grace timeout), and a
\* hangup it requests leads to no terminate action: no Call Control request and
\* no closing of the peers by the hangup sequence.
C39_LateMessageArmsNothing ==
  /\ [][(closed /\ oaHandled' # oaHandled)
          => /\ pacingActive' = pacingActive
             /\ drainChecks' = drainChecks
             /\ graceTimeouts' = graceTimeouts
             /\ hangupTimeout' = "pending" => hangupTimeout = "pending"]_vars
  /\ [][lateRequest => /\ hangupFetches' <= hangupFetches
                       /\ graceTimeouts' >= graceTimeouts]_vars

-----------------------------------------------------------------------------
(* Pacer *)

\* C1: every frame the pacer sends to the Telephony Peer carries exactly
\* FrameSize (160) bytes, a shorter final chunk being padded to 160.
C1_EveryFrameIsFrameSize ==
  \A i \in 1..Len(sentFrames) : Len(sentFrames[i].payload) = FrameSize

\* C35: every media frame sent to the Telephony Peer carries a non-empty
\* stream identifier: no frame is sent before the Telephony "start" event has
\* been handled, even when the AI Peer's audio is enqueued before it.
C35_FramesCarryStreamSid ==
  \A i \in 1..Len(sentFrames) : sentFrames[i].streamSid # ""

\* C2: once the queue of an open session has drained, the N bytes enqueued went
\* out as ceil(N / 160) frames whose concatenated payloads are the N bytes in
\* order followed by zero bytes up to a multiple of 160 (the pacer never having
\* run dry in between: every frame but the last is full).
C2_FrameExactness ==
  ( /\ ~closed
    /\ twilioState = "OPEN"
    /\ enqueuedBytes > 0
    /\ outQueue = <<>>
    /\ \A i \in 1..(Len(sentFrames) - 1) : Len(sentFrames[i].payload) = FrameSize )
  => /\ Len(sentFrames) = CeilDiv(enqueuedBytes, FrameSize)
     /\ Flatten(sentFrames) =
          Bytes(0, enqueuedBytes)
            \o Zeros(FrameSize * CeilDiv(enqueuedBytes, FrameSize) - enqueuedBytes)

\* C15: a tick whose send fails (the Telephony Peer is no longer open) leaves
\* the pacing timer armed and the session not Closed, and leaves in the queue
\* exactly the bytes that followed the attempted frame, in order, for the next
\* tick; nothing is recorded as sent.
C15_SendFailureKeepsPacing ==
  [][(Len(outQueue') < Len(outQueue) /\ twilioState # "OPEN") =>
       /\ pacingTimer /\ pacingTimer'
       /\ pacingActive' = pacingActive /\ pacingActive' > 0
       /\ ~closed /\ ~closed'
       /\ outQueue' = SubSeq(outQueue, Min(FrameSize, Len(outQueue)) + 1,
                             Len(outQueue))
       /\ sentFrames' = sentFrames]_vars

\* a frame was lost to a failed send and the rest of the audio is still queued
\* with the timer armed
C15_Witness ==
  /\ ~closed
  /\ ~crashed
  /\ twilioState # "OPEN"
  /\ pacingTimer
  /\ pacingActive > 0
  /\ Len(outQueue) > 0
  /\ Len(Flatten(sentFrames)) + Len(outQueue) < enqueuedBytes

-----------------------------------------------------------------------------
(* Session lifecycle *)

\* C21: the closed flag, once set, is never reset by any message, event or
\* timer, and the stream identifier, once captured, is never empty again.
C21_ClosedIsTerminal ==
  /\ [][closed => closed']_vars
  /\ [][streamSid # "" => streamSid' # ""]_vars

\* the session was closed after a start without identifiers, and both close
\* events were handled after the flag was set
C21_Witness ==
  /\ closed
  /\ streamSid = "STREAM"
  /\ oaState = "CLOSED"
  /\ twilioState = "CLOSED"
  /\ ~crashed

\* C24: a stop and a Telephony close mark the session Closed and start the
\* close of the AI Peer; an AI Peer close starts the close of the Telephony
\* Peer, whose close event marks the session Closed; and once a stop was
\* received or either connection is closing or closed, the session comes to be
\* Closed with both connections closed (unless the process dies first).
C24_EveryCloseEndsClosed ==
  /\ [][(~closed /\ closed') => oaState' \notin {"CONNECTING", "OPEN"}]_vars
  /\ [][(twilioState # "CLOSED" /\ twilioState' = "CLOSED" /\ ~crashed')
         => closed' /\ oaState' \notin {"CONNECTING", "OPEN"}]_vars
  /\ [][(oaState # "CLOSED" /\ oaState' = "CLOSED" /\ ~crashed')
         => twilioState' # "OPEN"]_vars
  /\ (closed \/ twilioState # "OPEN" \/ oaState \in {"CLOSING", "ABORTING", "CLOSED"})
       ~> (crashed \/ (closed /\ twilioState = "CLOSED" /\ oaState = "CLOSED"))

\* a session that had exchanged messages with both peers ended Closed with
\* both connections closed
C24_Witness ==
  /\ closed
  /\ twilioState = "CLOSED"
  /\ oaState = "CLOSED"
  /\ oaMsgs > 0
  /\ mediaMsgs > 0
  /\ ~crashed

\* C30: the heartbeat timer is armed exactly while the session is not Closed,
\* whatever audio flows; each of its runs finds the session not Closed, pings
\* the connections that are open (both, when both are) and changes nothing
\* else; so no ping is sent once the session is Closed.
C30_HeartbeatWhileNotClosed ==
  /\ [](~crashed => (keepAlive <=> ~closed))
  /\ [][beatToggle' # beatToggle
         => /\ ~closed
            /\ lastPing' = PingReaches(oaState, twilioState)
            /\ (oaState = "OPEN" /\ twilioState = "OPEN") => lastPing' = "both"
            /\ UNCHANGED <<sessionVars, socketVars, timerVars>>]_vars

\* the AI Peer closed first; the heartbeat ran once more before the Telephony
\* close event, found neither connection open, and was then cancelled
C30_Witness ==
  /\ closed
  /\ ~keepAlive
  /\ lastPing = "neither"
  /\ ~hangupRequested
  /\ twilioState = "CLOSED"
  /\ ~crashed

\* C22: no step changes both sessions: an event handled by one session leaves
\* the sockets, the closed flag and the timers of the other as they were.
C22_SessionsIsolated ==
  [][other' = other \/ UNCHANGED <<sessionVars, socketVars, timerVars>>]_vars

-----------------------------------------------------------------------------
(* Inbound messages *)

\* C16: handling a malformed message from either peer (text that is not JSON,
\* or JSON without a known event/type) sends nothing to either peer and changes
\* no session variable, socket or timer.
C16_MalformedMessageDropped ==
  [][(~malformedSeen /\ malformedSeen') =>
       UNCHANGED <<sessionVars, crashed, socketVars, timerVars, sentFrames,
                   oaSent, callControlRequests, hangupCloses>>]_vars

\* C20: a completed assistant transcript that contains a farewell phrase,
\* handled while no hangup has been requested, requests the hangup.
C20_AssistantFarewellRequestsHangup ==
  [][(~sawAssistantFarewell /\ sawAssistantFarewell' /\ ~hangupRequested)
       => hangupRequested']_vars

-----------------------------------------------------------------------------
(* Turn controller *)

\* C25: no step sends more than one frame and only the pacing callback sends;
\* every run of the callback with the session not closed, the Telephony Peer
\* open and the queue not empty sends exactly one frame and takes it off the
\* queue, whatever was enqueued since the last run; an enqueue sends nothing.
C25_OneFramePerTick ==
  /\ [][/\ framesSent' <= framesSent + 1
        /\ framesSent' # framesSent => tickToggle' # tickToggle]_vars
  /\ [][(tickToggle' # tickToggle /\ ~closed /\ twilioState = "OPEN"
           /\ Len(outQueue) > 0)
         => /\ framesSent' = framesSent + 1
            /\ Len(outQueue') = Len(outQueue) - Min(FrameSize, Len(outQueue))]_vars
  /\ [][enqueuedBytes' > enqueuedBytes => framesSent' = framesSent]_vars

\* two payloads (100 and 190 bytes) were enqueued before the callback ran, and
\* its run sent one frame
C25_Witness ==
  /\ enqueuedBytes = 290
  /\ framesSent = 1
  /\ Len(outQueue) = 130
  /\ ~closed

\* C26: an armed pacing timer stays armed, and stays the only one, in every
\* step that leaves the session not Closed; a run of the callback that finds
\* the queue empty sends nothing and changes no session variable, socket or
\* timer; audio enqueued while the timer is armed starts no second timer.
C26_PacingTimerStaysArmed ==
  /\ [][(pacingTimer /\ ~closed' /\ ~crashed')
         => pacingTimer' /\ pacingActive = 1 /\ pacingActive' = 1]_vars
  /\ [][(tickToggle' # tickToggle /\ ~closed /\ Len(outQueue) = 0)
         => UNCHANGED <<sessionVars, socketVars, timerVars, framesSent>>]_vars
  /\ [][(enqueuedBytes' > enqueuedBytes /\ pacingTimer)
         => pacingTimer' /\ pacingActive' = pacingActive]_vars

\* 100 bytes were sent as one frame, the queue was empty, and the 190 bytes
\* enqueued later were sent as two more frames with the one timer still armed
C26_Witness ==
  /\ enqueuedBytes = 290
  /\ framesSent = 3
  /\ Len(outQueue) = 0
  /\ pacingTimer
  /\ pacingActive = 1
  /\ ~closed

\* C27: once the session is Closed no step sends a frame or takes bytes off
\* the queue, and a run of the pacing callback stops the timer; this includes
\* the timer that audio enqueued after the close has armed.
C27_NoFrameAfterClosed ==
  /\ [][closed => framesSent' = framesSent /\ Len(outQueue') >= Len(outQueue)]_vars
  /\ [][(closed /\ tickToggle' # tickToggle)
         => ~pacingTimer' /\ pacingActive' = 0 /\ outQueue' = outQueue]_vars

\* audio was enqueued after the close, and the callback it armed has stopped
\* the timer with the audio still queued (the Telephony close event is yet to come)
C27_Witness ==
  /\ closed
  /\ enqAfterClosed
  /\ Len(outQueue) > 0
  /\ ~pacingTimer
  /\ pacingActive = 0
  /\ twilioState = "CLOSING"
  /\ ~crashed

\* C28: a session never has more than one pacing interval nor more than one
\* pending debounce timeout: a caller chunk that arms a debounce timeout leaves
\* it the only one pending, with the whole delay to run, and a pacing interval
\* is started only by an enqueue that finds none armed.
C28_OneTimerOfEachKind ==
  /\ [](pacingActive <= 1 /\ Len(commitPending) <= 1)
  /\ [][(mediaMsgs' > mediaMsgs /\ commitPending' # commitPending)
         => commitPending' = <<DebounceMs>>]_vars
  /\ [][pacingActive' > pacingActive
         => ~pacingTimer /\ pacingActive = 0 /\ enqueuedBytes' > enqueuedBytes]_vars

\* two caller chunks and two payloads of audio have arrived, no debounce
\* timeout has fired, and one timer of each kind is armed
C28_Witness ==
  /\ mediaMsgs = 2
  /\ enqueuedBytes = 290
  /\ commitPending = <<DebounceMs>>
  /\ ~awaitingResponse
  /\ pacingTimer
  /\ pacingActive = 1
  /\ ~closed

\* C3: at most one response request (the greeting included, the hangup goodbye
\* excepted) is outstanding at the AI Peer at any time: a further one is sent
\* only after a response-finished or error event.
C3_AtMostOneResponseInFlight == respInFlight <= 1

\* C9: every error event from the AI Peer leaves awaitingResponse false, so a
\* failed response cannot block later turns.
C9_ErrorClearsAwaitingResponse ==
  [][oaErrorsLogged' > oaErrorsLogged => ~awaitingResponse']_vars

\* C11: when a debounce timeout runs with the AI Peer open a commit is always
\* sent; a response.create follows it exactly when awaitingResponse was false,
\* and awaitingResponse is true afterwards in both cases.
C11_CommitThenResponseIfIdle ==
  [][(Len(commitPending') < Len(commitPending) /\ closed' = closed /\ ~crashed'
        /\ oaState = "OPEN")
       => /\ oaSent'["input_audio_buffer.commit"] = oaSent["input_audio_buffer.commit"] + 1
          /\ oaSent'["response.create"] =
               oaSent["response.create"] + (IF awaitingResponse THEN 0 ELSE 1)
          /\ awaitingResponse']_vars

\* a second commit was sent while the first response was still in flight: the
\* greeting and one debounce-driven response.create only
C11_Witness ==
  /\ oaSent["input_audio_buffer.commit"] = 2
  /\ oaSent["response.create"] = 2
  /\ awaitingResponse

\* a commit is sent by the debounce timeout
CommitStep == commitsSinceMedia' = commitsSinceMedia + 1

\* a debounce timeout runs its callback (it is neither cancelled nor lost with
\* the process) with the AI Peer open
CommitTimerRuns ==
  /\ Len(commitPending') < Len(commitPending)
  /\ closed' = closed
  /\ ~crashed'
  /\ oaState = "OPEN"

\* C10: caller chunks that arrive less than one debounce window apart (two
\* chunks 50 ms apart, window 250 ms) lead to exactly one commit, sent one full
\* window after the last chunk, followed by one response.create exactly when no
\* response was in flight.
C10_DebouncedCommit ==
  /\ [](commitsSinceMedia <= 1 /\ createsSinceMedia <= commitsSinceMedia)
  /\ [][CommitTimerRuns => CommitStep]_vars
  /\ [][CommitStep =>
          /\ sinceMedia = DebounceMs
          /\ createsSinceMedia' = IF awaitingResponse THEN createsSinceMedia
                                  ELSE createsSinceMedia + 1
          /\ awaitingResponse']_vars

\* two chunks 50 ms apart were forwarded and the one commit (with its
\* response.create) followed
C10_Witness ==
  /\ lastGap = 50
  /\ commitsSinceMedia = 1
  /\ createsSinceMedia = 1
  /\ sinceMedia = -1

\* a caller chunk is forwarded to the AI Peer
ChunkForwarded == mediaMsgs' > mediaMsgs /\ sinceMedia' = 0

\* C38: a commit is sent only when a full debounce window has passed since the
\* last caller chunk: every chunk re-arms the one debounce timeout with a whole
\* window, and as long as less than a window has passed since the last chunk
\* no commit and no debounce-driven response.create has been sent after it.
C38_NoCommitWithinWindow ==
  /\ [][ChunkForwarded => /\ commitPending' = <<DebounceMs>>
                          /\ commitsSinceMedia' = 0
                          /\ createsSinceMedia' = 0]_vars
  /\ [][(commitsSinceMedia' > commitsSinceMedia
           \/ createsSinceMedia' > createsSinceMedia)
          => sinceMedia >= DebounceMs /\ commitPending = <<0>>]_vars
  /\ []((sinceMedia >= 0 /\ sinceMedia < DebounceMs)
          => commitsSinceMedia = 0 /\ createsSinceMedia = 0)

\* 200 ms after the second of two chunks 50 ms apart: the re-armed timeout has
\* 50 ms to run and nothing was committed
C38_Witness ==
  /\ mediaMsgs = 2
  /\ lastGap = 50
  /\ sinceMedia = 200
  /\ commitPending = <<50>>
  /\ commitsSinceMedia = 0
  /\ createsSinceMedia = 0

-----------------------------------------------------------------------------
(* Hangup controller *)

\* C4 as stated: once the hangup is requested, exactly one goodbye has been sent
\* (the AI Peer being open at the first trigger), and every later trigger sends
\* nothing and changes no state of the session.
C4_LaterTriggersChangeNothing ==
  /\ [](hangupRequested /\ oaOpenAtRequest => goodbyeSent = 1)
  /\ [](goodbyeSent <= 1)
  /\ [][(triggers >= 1 /\ triggers' > triggers) =>
          UNCHANGED <<sessionVars, socketVars, timerVars, goodbyeSent,
                      oaOpenAtRequest>>]_vars

\* C4, amended: once the hangup is requested, exactly one goodbye has been sent
\* (the AI Peer being open at the first trigger), and every later trigger sends
\* no goodbye and changes no state of the session other than the pending
\* tool-call entry its own function-call event consumes.
C4_HangupIdempotence ==
  /\ [](hangupRequested /\ oaOpenAtRequest => goodbyeSent = 1)
  /\ [](goodbyeSent <= 1)
  /\ [][(triggers >= 1 /\ triggers' > triggers) =>
          UNCHANGED <<streamSid, callSid, closed, outQueue, pacingTimer, commitTimer,
                      awaitingResponse, hangupRequested, hangupReason, hangupTimeout,
                      socketVars, timerVars, goodbyeSent, oaOpenAtRequest>>]_vars

\* a second trigger was handled after a first one that found the AI Peer open
C4_Witness ==
  /\ triggers >= 2
  /\ hangupRequested
  /\ oaOpenAtRequest
  /\ goodbyeSent = 1

\* C12: once hangupRequested is true it stays true in every later state, and
\* hangupReason is the reason of the first trigger: the step that requests the
\* hangup records its trigger's reason, and no later step changes it.
C12_RequestedIsPermanent ==
  /\ [][hangupRequested => hangupRequested' /\ hangupReason' = hangupReason]_vars
  /\ [][~hangupRequested /\ hangupRequested' =>
          triggers' = triggers + 1 /\ hangupReason' = lastTriggerReason']_vars

\* a later trigger came with another reason and the first one is still recorded
C12_Witness ==
  /\ hangupRequested
  /\ triggers >= 2
  /\ lastTriggerReason # hangupReason

\* a function_call_arguments.done naming hangup_call consumes a pending entry
\* whose buffered arguments give no reason (they do not parse, or parse to an
\* object without one)
MalformedToolCallDone ==
  /\ namedDones' > namedDones
  /\ \E id \in ToolIds :
       /\ pendingToolCalls[id].present
       /\ ~pendingToolCalls'[id].present
       /\ pendingToolCalls[id].argsChunk # GoodArgs

\* C13: an end-call tool invocation whose buffered arguments are malformed
\* still requests the hangup in the same handler, with the default reason
\* "tool" when it is the first trigger.
C13_MalformedArgsStillHangUp ==
  [][MalformedToolCallDone =>
       /\ hangupRequested'
       /\ ~hangupRequested => (hangupReason' = "tool" /\ hangupTimeout' = "pending")]_vars

\* the hangup was requested by a tool call that gave no reason
C13_Witness ==
  /\ namedDones >= 1
  /\ hangupRequested
  /\ hangupReason = "tool"
  /\ hangupTimeout = "pending"

\* C19: every function_call_arguments.done that names the end-call tool,
\* handled while no hangup is requested, requests the hangup, whether or not
\* an arguments delta for the call id came before it and whether the delta or
\* the done event carried the tool name.
C19_NamedDoneRequestsHangup ==
  [][(namedDones' > namedDones /\ ~hangupRequested) => hangupRequested']_vars

\* C18: once the hangup is requested no new turn is accepted: the debounce
\* callback sends no response.create for caller audio that was forwarded after
\* the request.
C18_NoTurnAfterRequest == lateCreates = 0

\* draining began with three frames queued and nothing was enqueued since
Drain480 == drainStartLen = 3 * FrameSize /\ ~enqSinceDrain

\* a terminate action runs: the Call Control request or the close of the peers
TerminateStep ==
  \/ callControlRequests' > callControlRequests
  \/ hangupCloses' > hangupCloses

\* C17: when draining starts with 480 bytes queued and nothing more is enqueued,
\* then, with the Telephony Peer still open, the drain poll sees the queue empty
\* only after the third frame was sent; the terminate actions run only after
\* all three frames were sent, and only from the grace timeout armed by that
\* observation (or the completion of its Call Control request); unless the
\* session closes or the process dies first, the poll does come to see the
\* queue empty, and once it has, the terminate actions do run.
C17_DrainGraceTerminate ==
  /\ [][(Drain480 /\ twilioState = "OPEN" /\ graceTimeouts' > graceTimeouts)
         => sentSinceDrain = 3 /\ Len(outQueue) = 0]_vars
  /\ [][(Drain480 /\ twilioState = "OPEN" /\ TerminateStep)
         => /\ sentSinceDrain = 3
            /\ \/ graceTimeouts > 0 /\ graceTimeouts' = graceTimeouts - 1
               \/ hangupFetches > 0 /\ hangupFetches' = hangupFetches - 1]_vars
  /\ Drain480 ~> (enqSinceDrain \/ graceTimeouts > 0 \/ closed \/ crashed
                    \/ callControlRequests > 0 \/ hangupCloses > 0)
  /\ (Drain480 /\ graceTimeouts > 0)
       ~> (callControlRequests > 0 \/ hangupCloses > 0 \/ crashed)

\* the three frames were sent after draining began and the peers were then closed
C17_Witness ==
  /\ Drain480
  /\ sentSinceDrain = 3
  /\ graceTimeouts = 0
  /\ hangupCloses > 0
  /\ ~crashed

\* C37: once the hangup is requested, and unless the session is closed from
\* elsewhere or the process dies, the terminate actions are executed, whether a
\* response-finished or response-error event arrives or not: the fallback
\* timeout armed at the request runs (it is cancelled only by the close of the
\* session) and starts a drain poll, and with the timers running and the AI
\* Peer's audio at an end the pacer empties the queue.
C37_FallbackTerminates ==
  /\ [][(~hangupRequested /\ hangupRequested') => hangupTimeout' = "pending"]_vars
  /\ [][(hangupTimeout = "pending" /\ hangupTimeout' # "pending")
          => \/ hangupTimeout' = "fired" /\ drainChecks' = drainChecks + 1
             \/ closed' \/ crashed']_vars
  /\ (hangupRequested /\ ~closed) ~> (hangupCloses > 0 \/ closed \/ crashed)

\* the fallback timeout ran, the pacer then sent what was queued and the peers
\* were closed by the hangup sequence
C37_Witness ==
  /\ hangupTimeout = "fired"
  /\ drainStartLen = 3 * FrameSize
  /\ sentSinceDrain = 3
  /\ hangupCloses > 0
  /\ ~crashed

\* C23: the Call Control request is issued only by the grace timeout of the
\* hangup sequence and only with a call identifier captured; a session without
\* one never issues it, and its grace timeout still closes both peers.
C23_CallControlNeedsCallSid ==
  /\ [][callControlRequests' > callControlRequests
         => /\ callSid # ""
            /\ graceTimeouts > 0
            /\ graceTimeouts' = graceTimeouts - 1]_vars
  /\ [](callSid = "" => callControlRequests = 0)
  /\ [][(graceTimeouts' < graceTimeouts /\ ~crashed' /\ callSid = "")
         => /\ oaState' \notin {"CONNECTING", "OPEN"}
            /\ twilioState' # "OPEN"
            /\ hangupCloses' = hangupCloses + 1]_vars

\* a session whose start event carried no call identifier was hung up
C23_Witness ==
  /\ streamSid # ""
  /\ callSid = ""
  /\ hangupCloses > 0
  /\ callControlRequests = 0
  /\ ~crashed

\* C29: the step that requests the hangup with the AI Peer open sends the
\* goodbye response.create whether or not a response is awaited, and leaves
\* awaitingResponse as it was.
C29_GoodbyeBypassesInFlightLimit ==
  [][(~hangupRequested /\ hangupRequested' /\ oaState = "OPEN")
       => /\ goodbyeSent' = goodbyeSent + 1
          /\ awaitingResponse' = awaitingResponse]_vars

\* the hangup was requested while a response was awaited, and the goodbye was sent
C29_Witness ==
  /\ hangupRequested
  /\ reqWhileAwaiting
  /\ awaitingResponse
  /\ goodbyeSent = 1

\* C5: one hangup starts at most one drain poll, issues at most one Call
\* Control request and closes each peer at most once.
C5_TerminateExactlyOnce ==
  /\ pollersStarted <= 1
  /\ callControlRequests <= 1
  /\ hangupCloses <= 1

\* C6: the outgoing queue is empty whenever the hangup sequence issues the Call
\* Control request or closes the peers, audio enqueued during the grace period
\* included.
C6_DrainBeforeTerminate ==
  [][(callControlRequests' > callControlRequests \/ hangupCloses' > hangupCloses)
       => Len(outQueue) = 0]_vars

\* no step of the terminate sequence has been taken
NoTerminateStep ==
  /\ pollersStarted = 0
  /\ drainChecks = 0
  /\ graceTimeouts = 0
  /\ hangupFetches = 0
  /\ callControlRequests = 0
  /\ hangupCloses = 0

\* the hangup was requested by a caller farewell while a response was in flight
\* and no response-finished or response-error event has arrived since
FarewellDeferred ==
  /\ hangupRequested
  /\ hangupReason = "user-farewell"
  /\ reqWhileAwaiting
  /\ ~finishedSinceRequest

-----------------------------------------------------------------------------
(* Session lifecycle *)

\* C14: when the AI Peer connection closes while the session is not Closed, the
\* same handler initiates the close of the Telephony Peer connection, whatever
\* the outgoing queue still holds; the queue is not touched.
C14_OaCloseClosesTelephony ==
  [][(oaState # "CLOSED" /\ oaState' = "CLOSED" /\ ~crashed' /\ ~closed)
       => twilioState' # "OPEN" /\ outQueue' = outQueue]_vars

\* the AI Peer closed with audio still queued, and the Telephony Peer is closing
\* for that reason alone
C14_Witness ==
  /\ oaState = "CLOSED"
  /\ ~closed
  /\ ~crashed
  /\ hangupCloses = 0
  /\ twilioState = "CLOSING"
  /\ Len(outQueue) > 0

\* no timer of the session is armed
NoTimerPending ==
  /\ pacingActive = 0
  /\ commitPending = <<>>
  /\ ~keepAlive
  /\ hangupTimeout # "pending"
  /\ drainChecks = 0
  /\ graceTimeouts = 0

\* C8: the step that closes the session cancels every timer then armed (pacing
\* interval, debounce timeout, heartbeat, fallback timeout, drain poll, grace
\* timeout), and a timer callback that still runs after the close does nothing:
\* no Call Control request, no closing of a peer.
C8_CloseCancelsEveryTimer ==
  /\ [][~closed /\ closed' => NoTimerPending']_vars
  /\ [][closed => /\ callControlRequests' = callControlRequests
                  /\ hangupCloses' = hangupCloses]_vars

=============================================================================
